---- MODULE Spec2Model ----
(***************************************************************************)
(* Session / provider orchestration core of the therapy WebSocket server.  *)
(*                                                                         *)
(*   server/index.ts          connection handler, frame dispatch, memory   *)
(*   server/llm.ts            therapyReply, persona fallback, routing      *)
(*                            (the listing kept at the end of README.md)   *)
(*   server/services/ollama-llm.ts   callOllama                            *)
(*   server/safety.ts         detectCrisis / crisisResponse (not in the    *)
(*                            tree; modelled from the specification)       *)
(*                                                                         *)
(* A JavaScript string is modelled as a sequence of chunks: a chunk is a   *)
(* single character where characters matter (user text, which is trimmed   *)
(* and matched against the crisis lexicon) and a whole literal where only  *)
(* equality and containment of the literal matter (messages, markers).     *)
(* A template literal is the concatenation (\o) of its pieces.             *)
(*                                                                         *)
(* An async handler is split at its awaits: one action for the synchronous *)
(* prefix that runs when the frame arrives, one for each continuation.     *)
(* sess.history is a reference: the arrays live in heap, `[]` allocates a  *)
(* new one, and therapyReply keeps the reference it was called with.       *)
(*                                                                         *)
(* Eight specifications share the state:                                   *)
(*   Spec           overlapping generations on one connection              *)
(*   SpecFrames     every kind of inbound frame and loader outcome,        *)
(*                  generations one at a time                              *)
(*   SpecLong       conversations long enough to reach the memory cap      *)
(*   SpecLifecycle  every startup environment, the keepalive timer, close  *)
(*   SpecSessions   two connections served by the same event loop          *)
(*   SpecErrors     the failures of the cloud backend                      *)
(*   SpecDiagnostic the availability check of the local backend            *)
(*   SpecAuth       the requests of the auth router over the user store    *)
(***************************************************************************)
EXTENDS Integers, Sequences, FiniteSets, TLC

(***************************************************************************)
(* Bounds of the model                                                     *)
(***************************************************************************)
MaxFrames == 3        \* inbound frames per connection
MaxInflight == 2      \* therapyReply calls that may overlap
MaxLongFrames == 11   \* inbound frames per connection under SpecLong
MaxPings == 2         \* keepalive callbacks per connection under SpecLifecycle
MaxSessionFrames == 2 \* inbound frames per connection under SpecSessions, SpecDiagnostic
MaxErrorFrames == 1   \* inbound frames per connection under SpecErrors
MaxMarkers == 2       \* chunks in the message of an exception of the cloud backend
MaxModels == 2        \* models in the list the Ollama service reports
MaxRequests == 3      \* HTTP requests to the auth router under SpecAuth

(***************************************************************************)
(* Program constants                                                       *)
(***************************************************************************)
MemoryCap == 20
MinKeyLength == 20
SanitizeLimit == 500
MaxEmailLength == 254
MinPasswordLength == 6
MaxPasswordLength == 128
MinUserIdLength == 10
MaxUserIdLength == 100
StatusOK == 200
StatusCreated == 201
StatusBadRequest == 400
StatusUnauthorized == 401
StatusNotFound == 404
StatusConflict == 409
StatusServerError == 500
DefaultPersona == <<"sarah">>

Undefined == <<"(undefined)">>     \* a field the JSON object does not have
NoType == "(undefined)"
Falsy(v) == v = Undefined \/ v = <<>>

Whitespace == {" ", "\t", "\n"}

\* String.prototype.trim
RECURSIVE TrimStart(_)
TrimStart(s) ==
  IF s # <<>> /\ Head(s) \in Whitespace THEN TrimStart(Tail(s)) ELSE s

RECURSIVE TrimEnd(_)
TrimEnd(s) ==
  IF s # <<>> /\ s[Len(s)] \in Whitespace
  THEN TrimEnd(SubSeq(s, 1, Len(s) - 1))
  ELSE s

Trim(s) == TrimEnd(TrimStart(s))

\* String.prototype.toLowerCase on the characters the inputs use
LowerChar(c) ==
  CASE c = "K" -> "k"
    [] c = "I" -> "i"
    [] c = "L" -> "l"
    [] c = "H" -> "h"
    [] OTHER -> c

ToLower(s) == [i \in 1..Len(s) |-> LowerChar(s[i])]

\* String.prototype.includes, character by character
Contains(s, sub) ==
  \E i \in 0..(Len(s) - Len(sub)) : SubSeq(s, i + 1, i + Len(sub)) = sub

\* String.prototype.includes for a marker that is one chunk of the text
Includes(s, marker) == \E i \in 1..Len(s) : s[i] = marker

(***************************************************************************)
(* Safety gate (server/safety.ts)                                          *)
(***************************************************************************)
CrisisLexicon ==
  { <<"k","i","l","l"," ","m","y","s","e","l","f">>,
    <<"s","u","i","c","i","d","e">> }

detectCrisis(text) == \E phrase \in CrisisLexicon : Contains(ToLower(text), phrase)

crisisResponse == <<"[fixed supportive safety message]">>

(***************************************************************************)
(* Turns and persona context (server/llm.ts)                               *)
(*                                                                         *)
(* A turn carries, besides role and content, the history variable xid: the *)
(* arrival number of the inbound frame whose exchange produced it (0 for a *)
(* few-shot example).  The program does not store it; the properties use   *)
(* it to tell exchanges apart.                                             *)
(***************************************************************************)
Turn(role, content, xid) == [role |-> role, content |-> content, xid |-> xid]

\* the hardcoded fallback of therapyReply
DefaultSystem == <<"You are Sarah Chen, a 22-year-old college senior ...">>

DefaultFewShot ==
  << Turn("user", <<"Hello, how are you feeling today?">>, 0),
     Turn("assistant", <<"Um... hi. I'm honestly pretty nervous ...">>, 0) >>

\* what the persona loader returns when it finds the persona
PersonaData(persona) ==
  [ systemPrompt |-> <<"system prompt of ">> \o persona,
    fewShotExamples |->
      << Turn("user", <<"example question for ">> \o persona, 0),
         Turn("assistant", <<"example answer of ">> \o persona, 0) >> ]

\* outcomes of personaLoader.loadPersona: a value, null, or an exception
LoadOutcomes == {"found", "null", "throws"}

\* getLLMProvider
getLLMProvider(p) ==
  IF p = "ollama" THEN <<"Ollama (Local)">> ELSE <<"Gemini Pro (Google AI)">>

(***************************************************************************)
(* Inbound frames.  json is what JSON.parse makes of the payload: it       *)
(* throws ("invalid"), yields null, or yields an object whose fields are   *)
(* the ones below (Undefined when the object has no such field).           *)
(***************************************************************************)
Frame(json, type, text, persona) ==
  [json |-> json, type |-> type, text |-> text, persona |-> persona]

TextInputFrame(t) == Frame("object", "text_input", t, Undefined)
SetPersonaFrame(p) == Frame("object", "set_persona", Undefined, p)
ResetFrame == Frame("object", "reset", Undefined, Undefined)
UnknownFrame == Frame("object", "audio_chunk", Undefined, Undefined)
NoTypeFrame == Frame("object", NoType, <<"H","i">>, Undefined)
NullFrame == Frame("null", NoType, Undefined, Undefined)
MalformedFrame == Frame("invalid", NoType, Undefined, Undefined)

PassText == <<" ","H","i"," ">>
CrisisText == <<"K","I","L","L"," ","m","y","s","e","l","f","\n">>
BlankText == <<" "," ">>

InputTexts == {PassText, CrisisText, BlankText, <<>>, Undefined}
PersonaInputs == {<<"marcus">>, <<>>, Undefined}

InboundFrames ==
  {TextInputFrame(t) : t \in InputTexts}
    \cup {SetPersonaFrame(p) : p \in PersonaInputs}
    \cup {ResetFrame, UnknownFrame, NoTypeFrame, NullFrame, MalformedFrame}

\* err.message of the exceptions the dispatch itself can raise
ParseErrorMessage == <<"Unexpected token in JSON">>
NullTypeErrorMessage == <<"Cannot read properties of null (reading 'type')">>

(***************************************************************************)
(* Outcomes of the backends                                                *)
(***************************************************************************)
Missing == Undefined

\* fetch + response.json() of callOllama: a decoded body, a non-2xx status,
\* or an exception with a code, a message and a stack trace
OllamaOutcomes ==
  { [kind |-> "ok", content |-> <<" ","o","k","\n">>, code |-> "", message |-> <<>>,
       stack |-> <<>>],
    [kind |-> "throw", content |-> Missing, code |-> "ECONNREFUSED",
       message |-> <<"connect ECONNREFUSED 127.0.0.1:11434">>,
       stack |-> <<"Error: ", "connect ECONNREFUSED 127.0.0.1:11434",
                   "\n    at TCPConnectWrap.afterConnect [as oncomplete]">>] }

\* model.generateContent + response.text(): a text or an exception
GeminiOutcomes ==
  { [kind |-> "ok", content |-> <<" ","o","k","\n">>, message |-> <<>>],
    [kind |-> "throw", content |-> Missing, message |-> <<"[400] ", "API_KEY_INVALID">>] }

OLLAMA_BASE_URL == <<"http://localhost:11434">>

\* callOllama with a slip: a refused connection is reported like any other
\* exception
callOllama_NoRefusedCase(o) ==
  IF o.kind = "ok"
  THEN [ok |-> TRUE,
        value |-> IF o.content = Missing \/ Trim(o.content) = <<>>
                  THEN <<>> ELSE Trim(o.content)]
  ELSE LET error ==
             IF o.kind = "status"
             THEN [code |-> "",
                   message |-> <<"Ollama API error (", o.code, "): ">> \o o.content]
             ELSE [code |-> o.code, message |-> o.message]
       IN  [ok |-> FALSE, value |-> <<"Ollama error: ">> \o error.message]

\* callOllama: the reply text, or the message of the Error it throws
callOllama(o) ==
  IF o.kind = "ok"
  THEN [ok |-> TRUE,
        value |-> IF o.content = Missing \/ Trim(o.content) = <<>>
                  THEN <<>> ELSE Trim(o.content)]
  ELSE LET error ==
             IF o.kind = "status"
             THEN [code |-> "",
                   message |-> <<"Ollama API error (", o.code, "): ">> \o o.content]
             ELSE [code |-> o.code, message |-> o.message]
       IN  IF error.code = "ECONNREFUSED"
           THEN [ok |-> FALSE,
                 value |-> <<"Cannot connect to Ollama at ">> \o OLLAMA_BASE_URL
                           \o <<". Make sure Ollama is running: ollama serve">>]
           ELSE [ok |-> FALSE, value |-> <<"Ollama error: ">> \o error.message]

\* the ollama route of therapyReply
therapyReplyOllama(o) ==
  LET r == callOllama(o)
  IN  IF r.ok THEN r ELSE [ok |-> FALSE, value |-> <<"Ollama error: ">> \o r.value]

\* therapyReplyGemini with a slip: the quota markers are tested first
therapyReplyGemini_QuotaFirst(o) ==
  IF o.kind = "ok"
  THEN [ok |-> TRUE, value |-> Trim(o.content)]
  ELSE LET errorMsg == IF Falsy(o.message) THEN <<"Unknown error">> ELSE o.message
       IN  [ok |-> FALSE,
            value |->
              IF Includes(errorMsg, "quota") \/ Includes(errorMsg, "429")
              THEN <<"Gemini API quota exceeded. Please check your API usage limits.">>
              ELSE IF Includes(errorMsg, "API_KEY_INVALID") \/ Includes(errorMsg, "401")
              THEN <<"Invalid Gemini API key. Please check your GEMINI_API_KEY environment variable.">>
              ELSE IF Includes(errorMsg, "network") \/ Includes(errorMsg, "ECONNREFUSED")
              THEN <<"Network error connecting to Gemini API. Please check your internet connection.">>
              ELSE <<"Gemini API error: ">> \o errorMsg]

\* the Gemini route of therapyReply, once the client exists
therapyReplyGemini(o) ==
  IF o.kind = "ok"
  THEN [ok |-> TRUE, value |-> Trim(o.content)]
  ELSE LET errorMsg == IF Falsy(o.message) THEN <<"Unknown error">> ELSE o.message
       IN  [ok |-> FALSE,
            value |->
              IF Includes(errorMsg, "API_KEY_INVALID") \/ Includes(errorMsg, "401")
              THEN <<"Invalid Gemini API key. Please check your GEMINI_API_KEY environment variable.">>
              ELSE IF Includes(errorMsg, "quota") \/ Includes(errorMsg, "429")
              THEN <<"Gemini API quota exceeded. Please check your API usage limits.">>
              ELSE IF Includes(errorMsg, "network") \/ Includes(errorMsg, "ECONNREFUSED")
              THEN <<"Network error connecting to Gemini API. Please check your internet connection.">>
              ELSE <<"Gemini API error: ">> \o errorMsg]

GeminiNotInitialized ==
  <<"Gemini AI is not properly initialized. Check your GEMINI_API_KEY.">>

(***************************************************************************)
(* State                                                                   *)
(***************************************************************************)
VARIABLES
  LLM_PROVIDER,  \* process.env.LLM_PROVIDER, lower-cased, read at startup
  GEMINI_API_KEY, \* process.env.GEMINI_API_KEY, read at startup
  genAI,         \* TRUE when the GoogleGenerativeAI client was constructed
  readyState,    \* ws.readyState
  sess,          \* the Session: history (an array reference), persona, ping
  heap,          \* the ChatTurn arrays, by reference
  outbox,        \* frames handed to ws.send, in order
  req,           \* the text_input handlers that got past the empty check
  nframes,       \* number of "message" events delivered so far
  lastFrame,     \* history variable: the last "message" event
  resets,        \* history variable: arrival numbers of the processed resets
  spliced,       \* history variable: exchanges the trim has removed a turn of
  keepalive,     \* history variable: what happened to the interval timer
  parked,        \* the other connection: its socket, session and handlers
  diagnostic,    \* what the last checkOllamaAvailability call was given and
                 \* what it returned
  db,            \* the rows of the users table
  res,           \* the last HTTP request of the auth router and its response
  now            \* Date.now()

vars ==
  <<LLM_PROVIDER, GEMINI_API_KEY, genAI, readyState, sess, heap, outbox, req,
    nframes, lastFrame, resets, spliced, keepalive, parked, diagnostic,
    db, res, now>>

\* values of LLM_PROVIDER after toLowerCase: the two the program names and
\* one it does not
Providers == {"gemini", "ollama", "openai"}

\* values of GEMINI_API_KEY: unset, too short to be accepted, well-formed
ShortKey == [i \in 1..(MinKeyLength - 1) |-> "k"]
ValidKey == [i \in 1..MinKeyLength |-> "k"]
ApiKeys == {Undefined, ShortKey, ValidKey}

\* array slots: for each of two connections the session's array and one
\* per suspended handler, and one to allocate
ArrIds == 0..(2 * MaxInflight + 1)

NoFrame == [data |-> MalformedFrame, isBinary |-> TRUE]

\* handlers suspended in therapyReply
Loading == {r \in DOMAIN req : req[r].pc = "loadPersona"}
Generating == {r \in DOMAIN req : req[r].pc = "generate"}
InFlight == Loading \cup Generating

\* send with a slip: the state of the socket is not looked at
send_AnyState(box, obj) == Append(box, obj)

\* send(ws, obj): the frame goes out only on an open socket
send(box, obj) == IF readyState = "OPEN" THEN Append(box, obj) ELSE box

\* Arrays no variable refers to any more are garbage: their slots are
\* emptied so that a slot can be handed out again by the next `[]`.
\* the arrays the closures of the other connection refer to
ParkedRefs ==
  IF parked.readyState = "CONNECTING" THEN {}
  ELSE {parked.sess.history}
         \cup {parked.req[r].history :
                 r \in {x \in DOMAIN parked.req : parked.req[x].pc = "loadPersona"}}

Collect(h, cur, rq) ==
  LET refs == {cur} \cup ParkedRefs
                \cup {rq[r].history : r \in {x \in DOMAIN rq : rq[x].pc = "loadPersona"}}
  IN  [a \in ArrIds |-> IF a \in refs THEN h[a] ELSE <<>>]

FreshArr ==
  CHOOSE a \in ArrIds :
    /\ a # sess.history
    /\ a \notin ParkedRefs
    /\ \A r \in Loading : req[r].history # a
    /\ \A b \in ArrIds :
         ( b # sess.history /\ b \notin ParkedRefs
             /\ \A r \in Loading : req[r].history # b ) => a <= b

\* the `[]` of a new session: an array no closure refers to
FirstArr ==
  CHOOSE a \in ArrIds :
    a \notin ParkedRefs /\ \A b \in ArrIds : b \notin ParkedRefs => a <= b

\* a connection the server has not accepted yet
NoConnection ==
  [ readyState |-> "CONNECTING",
    sess |-> [history |-> 0, persona |-> <<>>, ping |-> "none"],
    outbox |-> <<>>, req |-> <<>>, nframes |-> 0, lastFrame |-> NoFrame,
    resets |-> {}, spliced |-> {},
    keepalive |-> [started |-> 0, cancelled |-> 0, fired |-> 0, pings |-> 0] ]

\* a body without a models field
NoModels == <<[name |-> Undefined]>>

\* no request was made to the auth router
NoResponse ==
  [ n |-> 0, route |-> "none", email |-> <<>>, userId |-> <<>>, valid |-> FALSE,
    service |-> "none", status |-> 0, success |-> FALSE, message |-> <<>>,
    user |-> {} ]

\* no diagnostic call was made
NoDiagnostic ==
  [ given |-> [kind |-> "none", status |-> "", models |-> NoModels, code |-> "",
               message |-> <<>>],
    result |-> [returned |-> FALSE, available |-> FALSE, modelInstalled |-> FALSE,
                error |-> Undefined] ]

\* the environments of the conversation specifications: the cloud provider
\* with and without a credential, and the local provider
Environments ==
  {<<"gemini", ValidKey>>, <<"gemini", Undefined>>, <<"ollama", Undefined>>}

\* every combination of provider value and credential
AllEnvironments == Providers \X ApiKeys

\* module load of llm.ts, then the state before the "connection" event
\* Startup with a slip: any non-empty key constructs the cloud client
Startup_KeyLengthIgnored(environments) ==
  /\ \E env \in environments :
       /\ LLM_PROVIDER = env[1]
       /\ GEMINI_API_KEY = env[2]
  /\ genAI = ( /\ LLM_PROVIDER = "gemini"
               /\ ~Falsy(GEMINI_API_KEY) )
  /\ readyState = "CONNECTING"
  /\ sess = [history |-> 0, persona |-> <<>>, ping |-> "none"]
  /\ heap = [a \in ArrIds |-> <<>>]
  /\ outbox = <<>>
  /\ req = <<>>
  /\ nframes = 0
  /\ lastFrame = NoFrame
  /\ resets = {}
  /\ spliced = {}
  /\ keepalive = [started |-> 0, cancelled |-> 0, fired |-> 0, pings |-> 0]
  /\ parked = NoConnection
  /\ diagnostic = NoDiagnostic
  /\ db = {}
  /\ res = NoResponse
  /\ now = 0

Startup(environments) ==
  /\ \E env \in environments :
       /\ LLM_PROVIDER = env[1]
       /\ GEMINI_API_KEY = env[2]
  /\ genAI = ( /\ LLM_PROVIDER = "gemini"
               /\ ~Falsy(GEMINI_API_KEY)
               /\ Len(GEMINI_API_KEY) >= MinKeyLength )
  /\ readyState = "CONNECTING"
  /\ sess = [history |-> 0, persona |-> <<>>, ping |-> "none"]
  /\ heap = [a \in ArrIds |-> <<>>]
  /\ outbox = <<>>
  /\ req = <<>>
  /\ nframes = 0
  /\ lastFrame = NoFrame
  /\ resets = {}
  /\ spliced = {}
  /\ keepalive = [started |-> 0, cancelled |-> 0, fired |-> 0, pings |-> 0]
  /\ parked = NoConnection
  /\ diagnostic = NoDiagnostic
  /\ db = {}
  /\ res = NoResponse
  /\ now = 0

Init == Startup(Environments)

(***************************************************************************)
(* wss.on("connection")                                                    *)
(***************************************************************************)
\* Connect with a slip: the provider is announced before the ready frame
Connect_InfoBeforeReady ==
  /\ readyState = "CONNECTING"
  /\ readyState' = "OPEN"
  /\ sess' = [history |-> FirstArr, persona |-> DefaultPersona, ping |-> "active"]
  /\ heap' = [heap EXCEPT ![FirstArr] = <<>>]
  /\ outbox' = Append(Append(outbox,
                             [type |-> "info",
                              message |-> <<"LLM: ">> \o getLLMProvider(LLM_PROVIDER)]),
                      [type |-> "ready"])
  /\ keepalive' = [keepalive EXCEPT !.started = @ + 1]
  /\ UNCHANGED <<LLM_PROVIDER, GEMINI_API_KEY, genAI, parked, diagnostic, db, res, now,
                 req, nframes, lastFrame, resets,
                 spliced>>

\* Connect with a slip: one history array at module level serves every session
Connect_SharedHistory ==
  /\ readyState = "CONNECTING"
  /\ readyState' = "OPEN"
  /\ sess' = [history |-> 0, persona |-> DefaultPersona, ping |-> "active"]
  /\ heap' = [heap EXCEPT ![0] = <<>>]
  /\ outbox' = Append(Append(outbox, [type |-> "ready"]),
                      [type |-> "info",
                       message |-> <<"LLM: ">> \o getLLMProvider(LLM_PROVIDER)])
  /\ keepalive' = [keepalive EXCEPT !.started = @ + 1]
  /\ UNCHANGED <<LLM_PROVIDER, GEMINI_API_KEY, genAI, parked, diagnostic, db, res, now,
                 req, nframes, lastFrame, resets,
                 spliced>>

Connect ==
  /\ readyState = "CONNECTING"
  /\ readyState' = "OPEN"
  /\ sess' = [history |-> FirstArr, persona |-> DefaultPersona, ping |-> "active"]
  /\ heap' = [heap EXCEPT ![FirstArr] = <<>>]
  /\ outbox' = Append(Append(outbox, [type |-> "ready"]),
                      [type |-> "info",
                       message |-> <<"LLM: ">> \o getLLMProvider(LLM_PROVIDER)])
  /\ keepalive' = [keepalive EXCEPT !.started = @ + 1]
  /\ UNCHANGED <<LLM_PROVIDER, GEMINI_API_KEY, genAI, parked, diagnostic, db, res, now,
                 req, nframes, lastFrame, resets,
                 spliced>>

(***************************************************************************)
(* ws.on("message"): the synchronous part of the handler                   *)
(***************************************************************************)
\* the backend has not been asked
NoOutcome == [kind |-> "none"]

\* a handler record; log is a history variable listing what the handler did,
\* backend the history variable holding what the backend did with its call,
\* received the history variable holding the memory the input found
NewReq(pc, userText, log) ==
  [ pc |-> pc, userText |-> userText,
    history |-> sess.history, persona |-> sess.persona,
    outcome |-> "pending", system |-> <<>>, fewShot |-> <<>>, messages |-> <<>>,
    calls |-> 0, backend |-> NoOutcome, log |-> log,
    received |-> heap[sess.history] ]

\* SetPersonaBranch with a slip: switching persona also starts a new memory
SetPersonaBranch_ClearsMemory(msg) ==
  LET persona == IF Falsy(msg.persona) THEN DefaultPersona ELSE msg.persona
  IN  /\ sess' = [sess EXCEPT !.persona = persona]
      /\ heap' = [heap EXCEPT ![sess.history] = <<>>]
      /\ outbox' = send(outbox, [type |-> "info",
                                 message |-> <<"Persona set to: ">> \o persona])
      /\ UNCHANGED <<req, resets>>

\* SetPersonaBranch with a slip: only a missing persona field is defaulted
SetPersonaBranch_OnlyMissingDefaulted(msg) ==
  LET persona == IF msg.persona = Undefined THEN DefaultPersona ELSE msg.persona
  IN  /\ sess' = [sess EXCEPT !.persona = persona]
      /\ outbox' = send(outbox, [type |-> "info",
                                 message |-> <<"Persona set to: ">> \o persona])
      /\ UNCHANGED <<heap, req, resets>>

SetPersonaBranch(msg) ==
  LET persona == IF Falsy(msg.persona) THEN DefaultPersona ELSE msg.persona
  IN  /\ sess' = [sess EXCEPT !.persona = persona]
      /\ outbox' = send(outbox, [type |-> "info",
                                 message |-> <<"Persona set to: ">> \o persona])
      /\ UNCHANGED <<heap, req, resets>>

\* TextInputBranch with a slip: the crisis screen is applied only under the
\* default persona
TextInputBranch_PersonaBypass(msg, id) ==
  LET userText == Trim(IF Falsy(msg.text) THEN <<>> ELSE msg.text)
      echoed == send(outbox, [type |-> "final_stt", text |-> userText, xid |-> id])
  IN  IF userText = <<>>
      THEN UNCHANGED <<sess, heap, outbox, req, resets>>
      ELSE IF sess.persona = DefaultPersona /\ detectCrisis(userText)
      THEN /\ heap' = [heap EXCEPT ![sess.history] =
                         Append(Append(@, Turn("user", userText, id)),
                                Turn("assistant", crisisResponse, id))]
           /\ outbox' = send(echoed, [type |-> "persona_say", who |-> "thera",
                                      text |-> crisisResponse, xid |-> id])
           /\ req' = req @@ (id :> NewReq("done", userText,
                                          <<"final_stt", "detectCrisis", "canned">>))
           /\ UNCHANGED <<sess, resets>>
      ELSE /\ outbox' = echoed
           /\ req' = req @@ (id :> NewReq("loadPersona", userText,
                                          <<"final_stt", "detectCrisis", "loadPersona">>))
           /\ UNCHANGED <<sess, heap, resets>>

\* TextInputBranch with a slip: therapyReply is started before the crisis
\* screen is consulted
TextInputBranch_LoadFirst(msg, id) ==
  LET userText == Trim(IF Falsy(msg.text) THEN <<>> ELSE msg.text)
      echoed == send(outbox, [type |-> "final_stt", text |-> userText, xid |-> id])
  IN  IF userText = <<>>
      THEN UNCHANGED <<sess, heap, outbox, req, resets>>
      ELSE IF detectCrisis(userText)
      THEN /\ heap' = [heap EXCEPT ![sess.history] =
                         Append(Append(@, Turn("user", userText, id)),
                                Turn("assistant", crisisResponse, id))]
           /\ outbox' = send(echoed, [type |-> "persona_say", who |-> "thera",
                                      text |-> crisisResponse, xid |-> id])
           /\ req' = req @@ (id :> NewReq("done", userText,
                                          <<"final_stt", "loadPersona", "detectCrisis", "canned">>))
           /\ UNCHANGED <<sess, resets>>
      ELSE /\ outbox' = echoed
           /\ req' = req @@ (id :> NewReq("loadPersona", userText,
                                          <<"final_stt", "loadPersona", "detectCrisis">>))
           /\ UNCHANGED <<sess, heap, resets>>

\* TextInputBranch with a slip: the canned exchange is answered but not
\* recorded
TextInputBranch_CannedNotRecorded(msg, id) ==
  LET userText == Trim(IF Falsy(msg.text) THEN <<>> ELSE msg.text)
      echoed == send(outbox, [type |-> "final_stt", text |-> userText, xid |-> id])
  IN  IF userText = <<>>
      THEN UNCHANGED <<sess, heap, outbox, req, resets>>
      ELSE IF detectCrisis(userText)
      THEN /\ outbox' = send(echoed, [type |-> "persona_say", who |-> "thera",
                                      text |-> crisisResponse, xid |-> id])
           /\ req' = req @@ (id :> NewReq("done", userText,
                                          <<"final_stt", "detectCrisis", "canned">>))
           /\ UNCHANGED <<sess, heap, resets>>
      ELSE /\ outbox' = echoed
           /\ req' = req @@ (id :> NewReq("loadPersona", userText,
                                          <<"final_stt", "detectCrisis", "loadPersona">>))
           /\ UNCHANGED <<sess, heap, resets>>

\* TextInputBranch with a slip: the text is echoed as it was received
TextInputBranch_EchoUntrimmed(msg, id) ==
  LET userText == Trim(IF Falsy(msg.text) THEN <<>> ELSE msg.text)
      echoed == send(outbox, [type |-> "final_stt", text |-> msg.text, xid |-> id])
  IN  IF userText = <<>>
      THEN UNCHANGED <<sess, heap, outbox, req, resets>>
      ELSE IF detectCrisis(userText)
      THEN /\ heap' = [heap EXCEPT ![sess.history] =
                         Append(Append(@, Turn("user", userText, id)),
                                Turn("assistant", crisisResponse, id))]
           /\ outbox' = send(echoed, [type |-> "persona_say", who |-> "thera",
                                      text |-> crisisResponse, xid |-> id])
           /\ req' = req @@ (id :> NewReq("done", userText,
                                          <<"final_stt", "detectCrisis", "canned">>))
           /\ UNCHANGED <<sess, resets>>
      ELSE /\ outbox' = echoed
           /\ req' = req @@ (id :> NewReq("loadPersona", userText,
                                          <<"final_stt", "detectCrisis", "loadPersona">>))
           /\ UNCHANGED <<sess, heap, resets>>

\* TextInputBranch with a slip: the emptiness test is made on the text as
\* received, before it is trimmed
TextInputBranch_BlankPasses(msg, id) ==
  LET userText == Trim(IF Falsy(msg.text) THEN <<>> ELSE msg.text)
      echoed == send(outbox, [type |-> "final_stt", text |-> userText, xid |-> id])
  IN  IF Falsy(msg.text)
      THEN UNCHANGED <<sess, heap, outbox, req, resets>>
      ELSE IF detectCrisis(userText)
      THEN /\ heap' = [heap EXCEPT ![sess.history] =
                         Append(Append(@, Turn("user", userText, id)),
                                Turn("assistant", crisisResponse, id))]
           /\ outbox' = send(echoed, [type |-> "persona_say", who |-> "thera",
                                      text |-> crisisResponse, xid |-> id])
           /\ req' = req @@ (id :> NewReq("done", userText,
                                          <<"final_stt", "detectCrisis", "canned">>))
           /\ UNCHANGED <<sess, resets>>
      ELSE /\ outbox' = echoed
           /\ req' = req @@ (id :> NewReq("loadPersona", userText,
                                          <<"final_stt", "detectCrisis", "loadPersona">>))
           /\ UNCHANGED <<sess, heap, resets>>

\* TextInputBranch with a slip: the user turn of a passing input is recorded
\* when the input arrives, before the reply exists
TextInputBranch_UserPushedAtArrival(msg, id) ==
  LET userText == Trim(IF Falsy(msg.text) THEN <<>> ELSE msg.text)
      echoed == send(outbox, [type |-> "final_stt", text |-> userText, xid |-> id])
  IN  IF userText = <<>>
      THEN UNCHANGED <<sess, heap, outbox, req, resets>>
      ELSE IF detectCrisis(userText)
      THEN /\ heap' = [heap EXCEPT ![sess.history] =
                         Append(Append(@, Turn("user", userText, id)),
                                Turn("assistant", crisisResponse, id))]
           /\ outbox' = send(echoed, [type |-> "persona_say", who |-> "thera",
                                      text |-> crisisResponse, xid |-> id])
           /\ req' = req @@ (id :> NewReq("done", userText,
                                          <<"final_stt", "detectCrisis", "canned">>))
           /\ UNCHANGED <<sess, resets>>
      ELSE /\ heap' = [heap EXCEPT ![sess.history] =
                         Append(@, Turn("user", userText, id))]
           /\ outbox' = echoed
           /\ req' = req @@ (id :> NewReq("loadPersona", userText,
                                          <<"final_stt", "detectCrisis", "loadPersona">>))
           /\ UNCHANGED <<sess, resets>>

TextInputBranch(msg, id) ==
  LET userText == Trim(IF Falsy(msg.text) THEN <<>> ELSE msg.text)
      echoed == send(outbox, [type |-> "final_stt", text |-> userText, xid |-> id])
  IN  IF userText = <<>>
      THEN UNCHANGED <<sess, heap, outbox, req, resets>>
      ELSE IF detectCrisis(userText)
      THEN LET reply == crisisResponse
           IN  /\ heap' = [heap EXCEPT ![sess.history] =
                             Append(Append(@, Turn("user", userText, id)),
                                    Turn("assistant", reply, id))]
               /\ outbox' = send(echoed, [type |-> "persona_say", who |-> "thera",
                                          text |-> reply, xid |-> id])
               /\ req' = req @@ (id :> NewReq("done", userText,
                                              <<"final_stt", "detectCrisis", "canned">>))
               /\ UNCHANGED <<sess, resets>>
      ELSE \* therapyReply runs up to its first await
           /\ outbox' = echoed
           /\ req' = req @@ (id :> NewReq("loadPersona", userText,
                                          <<"final_stt", "detectCrisis", "loadPersona">>))
           /\ UNCHANGED <<sess, heap, resets>>

\* ResetBranch with a slip: the whole session is re-created, persona included
ResetBranch_ResetsPersona(id) ==
  /\ sess' = [sess EXCEPT !.history = FreshArr, !.persona = DefaultPersona]
  /\ heap' = Collect([heap EXCEPT ![FreshArr] = <<>>], FreshArr, req)
  /\ outbox' = send(outbox, [type |-> "info", message |-> <<"Memory cleared">>])
  /\ resets' = resets \cup {id}
  /\ UNCHANGED req

ResetBranch(id) ==
  /\ sess' = [sess EXCEPT !.history = FreshArr]
  /\ heap' = Collect([heap EXCEPT ![FreshArr] = <<>>], FreshArr, req)
  /\ outbox' = send(outbox, [type |-> "info", message |-> <<"Memory cleared">>])
  /\ resets' = resets \cup {id}
  /\ UNCHANGED req

\* CatchBranch with a slip: the session is started afresh after an exception
CatchBranch_ClearsMemory(message) ==
  /\ outbox' = send(outbox, [type |-> "error", message |-> message, xid |-> 0])
  /\ heap' = [heap EXCEPT ![sess.history] = <<>>]
  /\ UNCHANGED <<sess, req, resets>>

\* the outer catch
CatchBranch(message) ==
  /\ outbox' = send(outbox, [type |-> "error", message |-> message, xid |-> 0])
  /\ UNCHANGED <<sess, heap, req, resets>>

\* whether the frame starts a therapyReply call
StartsCall(data, isBinary) ==
  /\ ~isBinary
  /\ data.json = "object"
  /\ data.type = "text_input"
  /\ ~Falsy(data.text)
  /\ Trim(data.text) # <<>>
  /\ ~detectCrisis(Trim(data.text))

\* OnMessage with a slip: a binary frame is decoded and dispatched like a
\* text frame
OnMessage_BinaryDispatched(data, isBinary, maxFrames, maxInflight) ==
  /\ readyState = "OPEN"
  /\ nframes < maxFrames
  /\ StartsCall(data, FALSE) => Cardinality(InFlight) < maxInflight
  /\ nframes' = nframes + 1
  /\ lastFrame' = [data |-> data, isBinary |-> isBinary]
  /\ IF data.json = "invalid"
     THEN CatchBranch(ParseErrorMessage)
     ELSE IF data.json = "null"
     THEN CatchBranch(NullTypeErrorMessage)
     ELSE IF data.type = "set_persona"
     THEN SetPersonaBranch(data)
     ELSE IF data.type = "text_input"
     THEN TextInputBranch(data, nframes + 1)
     ELSE IF data.type = "reset"
     THEN ResetBranch(nframes + 1)
     ELSE UNCHANGED <<sess, heap, outbox, req, resets>>
  /\ UNCHANGED <<LLM_PROVIDER, GEMINI_API_KEY, genAI, parked, diagnostic, db, res, now,
                 readyState, spliced, keepalive>>

OnMessage(data, isBinary, maxFrames, maxInflight) ==
  /\ readyState = "OPEN"
  /\ nframes < maxFrames
  /\ StartsCall(data, isBinary) => Cardinality(InFlight) < maxInflight
  /\ nframes' = nframes + 1
  /\ lastFrame' = [data |-> data, isBinary |-> isBinary]
  /\ IF isBinary
     THEN UNCHANGED <<sess, heap, outbox, req, resets>>
     ELSE IF data.json = "invalid"
     THEN CatchBranch(ParseErrorMessage)
     ELSE IF data.json = "null"
     THEN CatchBranch(NullTypeErrorMessage)
     ELSE IF data.type = "set_persona"
     THEN SetPersonaBranch(data)
     ELSE IF data.type = "text_input"
     THEN TextInputBranch(data, nframes + 1)
     ELSE IF data.type = "reset"
     THEN ResetBranch(nframes + 1)
     ELSE UNCHANGED <<sess, heap, outbox, req, resets>>
  /\ UNCHANGED <<LLM_PROVIDER, GEMINI_API_KEY, genAI, parked, diagnostic, db, res, now,
                 readyState, spliced, keepalive>>

\* PersonaLoaded with a slip: the persona context is the one of the session
\* at the moment the lookup returns
PersonaLoaded_SessionPersona(r, outcome) ==
  /\ r \in Loading
  /\ LET found == outcome = "found"
         system == IF found THEN PersonaData(sess.persona).systemPrompt
                   ELSE DefaultSystem
         fewShot == IF found THEN PersonaData(sess.persona).fewShotExamples
                    ELSE DefaultFewShot
         messages == fewShot \o heap[req[r].history]
                       \o <<Turn("user", req[r].userText, r)>>
         assembled == [req[r] EXCEPT !.outcome = outcome, !.system = system,
                                     !.fewShot = fewShot, !.messages = messages]
     IN  IF LLM_PROVIDER = "ollama" \/ genAI
         THEN /\ req' = [req EXCEPT ![r] =
                           [assembled EXCEPT !.pc = "generate", !.calls = @ + 1,
                                             !.log = Append(@, "provider")]]
              /\ UNCHANGED outbox
         ELSE /\ req' = [req EXCEPT ![r] =
                           [assembled EXCEPT !.pc = "done", !.log = Append(@, "error")]]
              /\ outbox' = send(outbox, [type |-> "error",
                                         message |-> GeminiNotInitialized, xid |-> r])
  /\ heap' = Collect(heap, sess.history, req')
  /\ UNCHANGED <<LLM_PROVIDER, GEMINI_API_KEY, genAI, parked, diagnostic, db, res, now,
                 readyState, sess, nframes,
                 lastFrame, resets, spliced, keepalive>>

\* PersonaLoaded with a slip: an exception of the persona loader is not caught
\* inside therapyReply and reaches the handler's catch
PersonaLoaded_LoaderThrowPropagates(r, outcome) ==
  /\ r \in Loading
  /\ LET found == outcome = "found"
         system == IF found THEN PersonaData(req[r].persona).systemPrompt
                   ELSE DefaultSystem
         fewShot == IF found THEN PersonaData(req[r].persona).fewShotExamples
                    ELSE DefaultFewShot
         messages == fewShot \o heap[req[r].history]
                       \o <<Turn("user", req[r].userText, r)>>
         assembled == [req[r] EXCEPT !.outcome = outcome, !.system = system,
                                     !.fewShot = fewShot, !.messages = messages]
     IN  IF outcome = "throws"
         THEN /\ req' = [req EXCEPT ![r] =
                           [@ EXCEPT !.outcome = outcome, !.pc = "done",
                                     !.log = Append(@, "error")]]
              /\ outbox' = send(outbox, [type |-> "error",
                                         message |-> <<"persona file unreadable">>,
                                         xid |-> r])
         ELSE IF LLM_PROVIDER = "ollama" \/ genAI
         THEN /\ req' = [req EXCEPT ![r] =
                           [assembled EXCEPT !.pc = "generate", !.calls = @ + 1,
                                             !.log = Append(@, "provider")]]
              /\ UNCHANGED outbox
         ELSE /\ req' = [req EXCEPT ![r] =
                           [assembled EXCEPT !.pc = "done", !.log = Append(@, "error")]]
              /\ outbox' = send(outbox, [type |-> "error",
                                         message |-> GeminiNotInitialized, xid |-> r])
  /\ heap' = Collect(heap, sess.history, req')
  /\ UNCHANGED <<LLM_PROVIDER, GEMINI_API_KEY, genAI, parked, diagnostic, db, res, now,
                 readyState, sess, nframes,
                 lastFrame, resets, spliced, keepalive>>

\* PersonaLoaded with a slip: the cloud client is required before routing
PersonaLoaded_CredentialRequired(r, outcome) ==
  /\ r \in Loading
  /\ LET found == outcome = "found"
         system == IF found THEN PersonaData(req[r].persona).systemPrompt
                   ELSE DefaultSystem
         fewShot == IF found THEN PersonaData(req[r].persona).fewShotExamples
                    ELSE DefaultFewShot
         messages == fewShot \o heap[req[r].history]
                       \o <<Turn("user", req[r].userText, r)>>
         assembled == [req[r] EXCEPT !.outcome = outcome, !.system = system,
                                     !.fewShot = fewShot, !.messages = messages]
     IN  IF genAI
         THEN /\ req' = [req EXCEPT ![r] =
                           [assembled EXCEPT !.pc = "generate", !.calls = @ + 1,
                                             !.log = Append(@, "provider")]]
              /\ UNCHANGED outbox
         ELSE /\ req' = [req EXCEPT ![r] =
                           [assembled EXCEPT !.pc = "done", !.log = Append(@, "error")]]
              /\ outbox' = send(outbox, [type |-> "error",
                                         message |-> GeminiNotInitialized, xid |-> r])
  /\ heap' = Collect(heap, sess.history, req')
  /\ UNCHANGED <<LLM_PROVIDER, GEMINI_API_KEY, genAI, parked, diagnostic, db, res, now,
                 readyState, sess, nframes,
                 lastFrame, resets, spliced, keepalive>>

(***************************************************************************)
(* therapyReply after `await personaLoader.loadPersona(...)`: persona      *)
(* fallback, prompt assembly and routing.  When the Gemini client is       *)
(* missing the call rejects at once and the handler's catch runs.          *)
(***************************************************************************)
PersonaLoaded(r, outcome) ==
  /\ r \in Loading
  /\ LET found == outcome = "found"
         system == IF found THEN PersonaData(req[r].persona).systemPrompt
                   ELSE DefaultSystem
         fewShot == IF found THEN PersonaData(req[r].persona).fewShotExamples
                    ELSE DefaultFewShot
         messages == fewShot \o heap[req[r].history]
                       \o <<Turn("user", req[r].userText, r)>>
         assembled == [req[r] EXCEPT !.outcome = outcome, !.system = system,
                                     !.fewShot = fewShot, !.messages = messages]
     IN  IF LLM_PROVIDER = "ollama" \/ genAI
         THEN /\ req' = [req EXCEPT ![r] =
                           [assembled EXCEPT !.pc = "generate", !.calls = @ + 1,
                                             !.log = Append(@, "provider")]]
              /\ UNCHANGED outbox
         ELSE /\ req' = [req EXCEPT ![r] =
                           [assembled EXCEPT !.pc = "done", !.log = Append(@, "error")]]
              /\ outbox' = send(outbox, [type |-> "error",
                                         message |-> GeminiNotInitialized, xid |-> r])
  /\ heap' = Collect(heap, sess.history, req')
  /\ UNCHANGED <<LLM_PROVIDER, GEMINI_API_KEY, genAI, parked, diagnostic, db, res, now,
                 readyState, sess, nframes,
                 lastFrame, resets, spliced, keepalive>>

\* AdapterDone with a slip: the memory is cut to its cap before the new pair
\* is pushed
AdapterDone_TrimsBeforePush(r, o) ==
  /\ r \in Generating
  /\ LET result == IF LLM_PROVIDER = "ollama" THEN therapyReplyOllama(o)
                   ELSE therapyReplyGemini(o)
     IN  IF result.ok
         THEN LET reply == result.value
                  old == heap[sess.history]
                  kept == IF Len(old) > MemoryCap
                          THEN SubSeq(old, Len(old) - MemoryCap + 1, Len(old))
                          ELSE old
                  pushed == Append(Append(kept, Turn("user", req[r].userText, r)),
                                   Turn("assistant", reply, r))
              IN  /\ heap' = [heap EXCEPT ![sess.history] = pushed]
                  /\ spliced' = spliced \cup
                       {old[i].xid : i \in 1..(Len(old) - Len(kept))}
                  /\ outbox' = send(outbox, [type |-> "persona_say", who |-> "thera",
                                             text |-> reply, xid |-> r])
                  /\ req' = [req EXCEPT ![r].pc = "done",
                                        ![r].log = Append(@, "generated"),
                                        ![r].backend = o]
         ELSE LET errorMsg == IF Falsy(result.value)
                              THEN <<"Failed to get response from AI">>
                              ELSE result.value
              IN  /\ outbox' = send(outbox, [type |-> "error", message |-> errorMsg,
                                             xid |-> r])
                  /\ req' = [req EXCEPT ![r].pc = "done",
                                        ![r].log = Append(@, "error"),
                                        ![r].backend = o]
                  /\ UNCHANGED <<heap, spliced>>
  /\ UNCHANGED <<LLM_PROVIDER, GEMINI_API_KEY, genAI, parked, diagnostic, db, res, now,
                 readyState, sess, nframes,
                 lastFrame, resets, keepalive>>

\* AdapterDone with a slip: a failed backend call is repeated once before
\* the failure is reported
AdapterDone_RetriesOnce(r, o) ==
  /\ r \in Generating
  /\ LET result == IF LLM_PROVIDER = "ollama" THEN therapyReplyOllama(o)
                   ELSE therapyReplyGemini(o)
     IN  IF result.ok
         THEN LET reply == result.value
                  pushed == Append(Append(heap[sess.history],
                                          Turn("user", req[r].userText, r)),
                                   Turn("assistant", reply, r))
                  kept == IF Len(pushed) > MemoryCap
                          THEN SubSeq(pushed, Len(pushed) - MemoryCap + 1, Len(pushed))
                          ELSE pushed
              IN  /\ heap' = [heap EXCEPT ![sess.history] = kept]
                  /\ spliced' = spliced \cup
                       {pushed[i].xid : i \in 1..(Len(pushed) - Len(kept))}
                  /\ outbox' = send(outbox, [type |-> "persona_say", who |-> "thera",
                                             text |-> reply, xid |-> r])
                  /\ req' = [req EXCEPT ![r].pc = "done",
                                        ![r].log = Append(@, "generated"),
                                        ![r].backend = o]
         ELSE IF req[r].calls < 2
         THEN /\ req' = [req EXCEPT ![r].calls = @ + 1,
                                    ![r].log = Append(@, "provider")]
              /\ UNCHANGED <<heap, spliced, outbox>>
         ELSE LET errorMsg == IF Falsy(result.value)
                              THEN <<"Failed to get response from AI">>
                              ELSE result.value
              IN  /\ outbox' = send(outbox, [type |-> "error", message |-> errorMsg,
                                             xid |-> r])
                  /\ req' = [req EXCEPT ![r].pc = "done",
                                        ![r].log = Append(@, "error"),
                                        ![r].backend = o]
                  /\ UNCHANGED <<heap, spliced>>
  /\ UNCHANGED <<LLM_PROVIDER, GEMINI_API_KEY, genAI, parked, diagnostic, db, res, now,
                 readyState, sess, nframes,
                 lastFrame, resets, keepalive>>

\* AdapterDone with a slip: a failed generation terminates the connection
AdapterDone_FailureEndsSession(r, o) ==
  /\ r \in Generating
  /\ LET result == IF LLM_PROVIDER = "ollama" THEN therapyReplyOllama(o)
                   ELSE therapyReplyGemini(o)
     IN  IF result.ok
         THEN LET reply == result.value
                  pushed == Append(Append(heap[sess.history],
                                          Turn("user", req[r].userText, r)),
                                   Turn("assistant", reply, r))
                  kept == IF Len(pushed) > MemoryCap
                          THEN SubSeq(pushed, Len(pushed) - MemoryCap + 1, Len(pushed))
                          ELSE pushed
              IN  /\ heap' = [heap EXCEPT ![sess.history] = kept]
                  /\ spliced' = spliced \cup
                       {pushed[i].xid : i \in 1..(Len(pushed) - Len(kept))}
                  /\ outbox' = send(outbox, [type |-> "persona_say", who |-> "thera",
                                             text |-> reply, xid |-> r])
                  /\ req' = [req EXCEPT ![r].pc = "done",
                                        ![r].log = Append(@, "generated"),
                                        ![r].backend = o]
                  /\ UNCHANGED readyState
         ELSE LET errorMsg == IF Falsy(result.value)
                              THEN <<"Failed to get response from AI">>
                              ELSE result.value
              IN  /\ outbox' = send(outbox, [type |-> "error", message |-> errorMsg,
                                             xid |-> r])
                  /\ req' = [req EXCEPT ![r].pc = "done",
                                        ![r].log = Append(@, "error"),
                                        ![r].backend = o]
                  /\ readyState' = "CLOSED"
                  /\ UNCHANGED <<heap, spliced>>
  /\ UNCHANGED <<LLM_PROVIDER, GEMINI_API_KEY, genAI, parked, diagnostic, db, res, now,
                 sess, nframes, lastFrame, resets,
                 keepalive>>

\* AdapterDone with a slip: the user turn is recorded whether or not the
\* generation succeeded
AdapterDone_UserTurnKeptOnFailure(r, o) ==
  /\ r \in Generating
  /\ LET result == IF LLM_PROVIDER = "ollama" THEN therapyReplyOllama(o)
                   ELSE therapyReplyGemini(o)
         withUser == Append(heap[sess.history], Turn("user", req[r].userText, r))
     IN  IF result.ok
         THEN LET reply == result.value
                  pushed == Append(withUser, Turn("assistant", reply, r))
                  kept == IF Len(pushed) > MemoryCap
                          THEN SubSeq(pushed, Len(pushed) - MemoryCap + 1, Len(pushed))
                          ELSE pushed
              IN  /\ heap' = [heap EXCEPT ![sess.history] = kept]
                  /\ spliced' = spliced \cup
                       {pushed[i].xid : i \in 1..(Len(pushed) - Len(kept))}
                  /\ outbox' = send(outbox, [type |-> "persona_say", who |-> "thera",
                                             text |-> reply, xid |-> r])
                  /\ req' = [req EXCEPT ![r].pc = "done",
                                        ![r].log = Append(@, "generated"),
                                        ![r].backend = o]
         ELSE LET errorMsg == IF Falsy(result.value)
                              THEN <<"Failed to get response from AI">>
                              ELSE result.value
              IN  /\ outbox' = send(outbox, [type |-> "error", message |-> errorMsg,
                                             xid |-> r])
                  /\ req' = [req EXCEPT ![r].pc = "done",
                                        ![r].log = Append(@, "error"),
                                        ![r].backend = o]
                  /\ heap' = [heap EXCEPT ![sess.history] = withUser]
                  /\ UNCHANGED spliced
  /\ UNCHANGED <<LLM_PROVIDER, GEMINI_API_KEY, genAI, parked, diagnostic, db, res, now,
                 readyState, sess, nframes,
                 lastFrame, resets, keepalive>>

(***************************************************************************)
(* The backend answers: therapyReply settles and the handler resumes after *)
(* `await therapyReply(...)`, in its try block or in its catch.            *)
(***************************************************************************)
AdapterDone(r, o) ==
  /\ r \in Generating
  /\ LET result == IF LLM_PROVIDER = "ollama" THEN therapyReplyOllama(o)
                   ELSE therapyReplyGemini(o)
     IN  IF result.ok
         THEN LET reply == result.value
                  pushed == Append(Append(heap[sess.history],
                                          Turn("user", req[r].userText, r)),
                                   Turn("assistant", reply, r))
                  kept == IF Len(pushed) > MemoryCap
                          THEN SubSeq(pushed, Len(pushed) - MemoryCap + 1, Len(pushed))
                          ELSE pushed
              IN  /\ heap' = [heap EXCEPT ![sess.history] = kept]
                  /\ spliced' = spliced \cup
                       {pushed[i].xid : i \in 1..(Len(pushed) - Len(kept))}
                  /\ outbox' = send(outbox, [type |-> "persona_say", who |-> "thera",
                                             text |-> reply, xid |-> r])
                  /\ req' = [req EXCEPT ![r].pc = "done",
                                        ![r].log = Append(@, "generated"),
                                        ![r].backend = o]
         ELSE LET errorMsg == IF Falsy(result.value)
                              THEN <<"Failed to get response from AI">>
                              ELSE result.value
              IN  /\ outbox' = send(outbox, [type |-> "error", message |-> errorMsg,
                                             xid |-> r])
                  /\ req' = [req EXCEPT ![r].pc = "done",
                                        ![r].log = Append(@, "error"),
                                        ![r].backend = o]
                  /\ UNCHANGED <<heap, spliced>>
  /\ UNCHANGED <<LLM_PROVIDER, GEMINI_API_KEY, genAI, parked, diagnostic, db, res, now,
                 readyState, sess, nframes,
                 lastFrame, resets, keepalive>>

BackendOutcomes == IF LLM_PROVIDER = "ollama" THEN OllamaOutcomes ELSE GeminiOutcomes

(***************************************************************************)
(* ws.on("close"): the socket has left OPEN and "close" is emitted, after  *)
(* a closing handshake or after the transport failed; the program has no   *)
(* handler for the socket's "error" event, so this is the only handler     *)
(* that runs when a connection ends.                                       *)
(***************************************************************************)
\* OnClose with a slip: the interval timer is left running
OnClose_KeepsTimer ==
  /\ readyState = "OPEN"
  /\ readyState' = "CLOSED"
  /\ UNCHANGED <<LLM_PROVIDER, GEMINI_API_KEY, genAI, parked, diagnostic, db, res, now,
                 sess, heap, outbox, req, nframes,
                 lastFrame, resets, spliced, keepalive>>

OnClose ==
  /\ readyState = "OPEN"
  /\ readyState' = "CLOSED"
  /\ sess' = [sess EXCEPT !.ping = IF @ = "active" THEN "cleared" ELSE @]
  /\ keepalive' = [keepalive EXCEPT
                     !.cancelled = IF sess.ping = "active" THEN @ + 1 ELSE @]
  /\ UNCHANGED <<LLM_PROVIDER, GEMINI_API_KEY, genAI, parked, diagnostic, db, res, now,
                 heap, outbox, req, nframes,
                 lastFrame, resets, spliced>>

BinaryPayloads == {TextInputFrame(PassText), ResetFrame, MalformedFrame}

\* the frames that read or write the session
SessionFrames ==
  { TextInputFrame(PassText), TextInputFrame(CrisisText),
    SetPersonaFrame(<<"marcus">>), SetPersonaFrame(Undefined), ResetFrame }

Receive ==
  \E data \in SessionFrames : OnMessage(data, FALSE, MaxFrames, MaxInflight)

LoadPersona == \E r \in Loading, outcome \in LoadOutcomes : PersonaLoaded(r, outcome)

\* overlapping handlers: the persona is found, or the loader throws
LoadPersonaOverlap ==
  \E r \in Loading, outcome \in {"found", "throws"} : PersonaLoaded(r, outcome)

Generate == \E r \in Generating, o \in BackendOutcomes : AdapterDone(r, o)

Next ==
  \/ Connect
  \/ Receive
  \/ LoadPersonaOverlap
  \/ Generate
  \/ OnClose

Spec == Init /\ [][Next]_vars

(***************************************************************************)
(* Frame dispatch: every kind of payload, text or binary, and every        *)
(* outcome of the persona loader.  The client sends an input that needs a  *)
(* generated reply only when no generation is pending; every other frame   *)
(* may arrive while one is.                                                *)
(***************************************************************************)
ReceiveAny ==
  \E data \in InboundFrames :
    /\ StartsCall(data, FALSE) => InFlight = {}
    /\ OnMessage(data, FALSE, MaxFrames, MaxInflight)

ReceiveBinary ==
  \E data \in BinaryPayloads : OnMessage(data, TRUE, MaxFrames, MaxInflight)

NextFrames ==
  \/ Connect
  \/ ReceiveAny
  \/ ReceiveBinary
  \/ LoadPersona
  \/ Generate
  \/ OnClose

SpecFrames == Init /\ [][NextFrames]_vars

(***************************************************************************)
(* Long conversations: one connection that stays open, the persona found   *)
(* and the backend answering, each input sent after the previous one was   *)
(* answered, and enough inputs for the memory to reach its cap.            *)
(***************************************************************************)
LongFrames == {TextInputFrame(PassText), TextInputFrame(CrisisText)}

ReceiveLong ==
  /\ InFlight = {}
  /\ \E data \in LongFrames : OnMessage(data, FALSE, MaxLongFrames, MaxInflight)

LoadPersonaLong == \E r \in Loading : PersonaLoaded(r, "found")

GenerateLong ==
  \E r \in Generating, o \in {x \in BackendOutcomes : x.kind = "ok"} : AdapterDone(r, o)

NextLong ==
  \/ Connect
  \/ ReceiveLong
  \/ LoadPersonaLong
  \/ GenerateLong

SpecLong == Init /\ [][NextLong]_vars

(***************************************************************************)
(* Connection lifecycle: every startup environment, the keepalive timer    *)
(* firing while it is set, a short conversation, and the close.            *)
(***************************************************************************)
InitLifecycle == Startup(AllEnvironments)

\* the interval callback `try { ws.ping(); } catch {}`: it runs only while
\* the timer is set, and a ping frame goes out only on an open socket
KeepaliveTick ==
  /\ sess.ping = "active"
  /\ keepalive.fired < MaxPings
  /\ keepalive' = [keepalive EXCEPT
                     !.fired = @ + 1,
                     !.pings = IF readyState = "OPEN" THEN @ + 1 ELSE @]
  /\ UNCHANGED <<LLM_PROVIDER, GEMINI_API_KEY, genAI, parked, diagnostic, db, res, now,
                 readyState, sess, heap, outbox,
                 req, nframes, lastFrame, resets, spliced>>

ReceiveQuiet ==
  /\ InFlight = {}
  /\ \E data \in LongFrames \cup {MalformedFrame} :
       OnMessage(data, FALSE, MaxFrames, MaxInflight)

NextLifecycle ==
  \/ Connect
  \/ KeepaliveTick
  \/ ReceiveQuiet
  \/ LoadPersonaLong
  \/ Generate
  \/ OnClose

SpecLifecycle == InitLifecycle /\ [][NextLifecycle]_vars

(***************************************************************************)
(* Two connections.  The variables readyState, sess, outbox, req, ...      *)
(* are the locals of the connection whose event the event loop is running; *)
(* the locals of the other connection are parked.  The arrays of both      *)
(* live in the same heap.  The event loop turning to the other connection  *)
(* exchanges the two sets of locals.                                       *)
(***************************************************************************)
InitSessions == Startup({<<"ollama", Undefined>>})

SwitchConnection ==
  /\ parked' = [ readyState |-> readyState, sess |-> sess, outbox |-> outbox,
                 req |-> req, nframes |-> nframes, lastFrame |-> lastFrame,
                 resets |-> resets, spliced |-> spliced, keepalive |-> keepalive ]
  /\ readyState' = parked.readyState
  /\ sess' = parked.sess
  /\ outbox' = parked.outbox
  /\ req' = parked.req
  /\ nframes' = parked.nframes
  /\ lastFrame' = parked.lastFrame
  /\ resets' = parked.resets
  /\ spliced' = parked.spliced
  /\ keepalive' = parked.keepalive
  /\ UNCHANGED <<LLM_PROVIDER, GEMINI_API_KEY, genAI, heap, diagnostic, db, res, now>>

ReceiveSession ==
  \E data \in SessionFrames :
    /\ StartsCall(data, FALSE) => InFlight = {}
    /\ OnMessage(data, FALSE, MaxSessionFrames, MaxInflight)

NextSessions ==
  \/ Connect
  \/ SwitchConnection
  \/ ReceiveSession
  \/ LoadPersonaLong
  \/ GenerateLong

SpecSessions == InitSessions /\ [][NextSessions]_vars

(***************************************************************************)
(* Failures of the cloud backend.  The client exists; generateContent      *)
(* throws, and the message of the exception is any short text made of the  *)
(* markers the adapter looks for and of text it does not look for, or is   *)
(* missing.                                                                *)
(***************************************************************************)
ErrorChunks ==
  {"API_KEY_INVALID", "401", "quota", "429", "network", "ECONNREFUSED",
   "[500] internal"}

RECURSIVE Texts(_)
Texts(n) ==
  IF n = 0 THEN {<<>>}
  ELSE Texts(n - 1) \cup {Append(t, c) : t \in Texts(n - 1), c \in ErrorChunks}

GeminiFailures ==
  { [kind |-> "throw", content |-> Missing, message |-> m] :
      m \in Texts(MaxMarkers) \cup {Undefined} }

InitErrors == Startup({<<"gemini", ValidKey>>})

ReceiveErrors ==
  \E data \in {TextInputFrame(PassText)} :
    OnMessage(data, FALSE, MaxErrorFrames, MaxInflight)

GenerateErrors == \E r \in Generating, o \in GeminiFailures : AdapterDone(r, o)

NextErrors ==
  \/ Connect
  \/ ReceiveErrors
  \/ LoadPersonaLong
  \/ GenerateErrors
  \/ OnClose

SpecErrors == InitErrors /\ [][NextErrors]_vars

(***************************************************************************)
(* checkOllamaAvailability (server/services/ollama-llm.ts): GET /api/tags  *)
(* and a look through the names of the installed models.  Names are        *)
(* strings of characters.  Nothing in the server calls it; an operator     *)
(* runs it at any moment.                                                  *)
(***************************************************************************)
OLLAMA_MODEL == <<"l","l","a","m","a","3">>

\* String.prototype.startsWith
StartsWith(s, prefix) ==
  Len(s) >= Len(prefix) /\ SubSeq(s, 1, Len(prefix)) = prefix

ModelNames ==
  { <<"l","l","a","m","a","3">>,
    <<"l","l","a","m","a","3",":","8","b">>,
    <<"l","l","a","m","a","3",".","1",":","8","b">>,
    <<"l","l","a","m","a">>,
    <<"m","i","s","t","r","a","l",":","7","b">> }

RECURSIVE ModelLists(_)
ModelLists(n) ==
  IF n = 0 THEN {<<>>}
  ELSE ModelLists(n - 1)
         \cup {Append(l, [name |-> m]) : l \in ModelLists(n - 1), m \in ModelNames}

\* fetch + response.json(): a decoded body with or without a models field, a
\* non-2xx status, or an exception
TagsOutcomes ==
  { [kind |-> "ok", status |-> "200", models |-> ms, code |-> "", message |-> <<>>] :
      ms \in ModelLists(MaxModels) \cup {NoModels} }
    \cup { [kind |-> "status", status |-> c, models |-> NoModels, code |-> "",
            message |-> <<>>] : c \in {"404", "500"} }
    \cup { [kind |-> "throw", status |-> "", models |-> NoModels,
            code |-> "ECONNREFUSED",
            message |-> <<"connect ECONNREFUSED 127.0.0.1:11434">>],
          [kind |-> "throw", status |-> "", models |-> NoModels,
            code |-> "ENOTFOUND",
            message |-> <<"getaddrinfo ENOTFOUND ollama.internal">>],
          [kind |-> "throw", status |-> "", models |-> NoModels, code |-> "",
            message |-> <<"Unexpected token < in JSON at position 0">>] }

\* checkOllamaAvailability with a slip: any name that begins with the
\* configured name counts
checkOllamaAvailability_AnyPrefix(response) ==
  IF response.kind = "throw"
  THEN IF response.code = "ECONNREFUSED"
       THEN [returned |-> TRUE, available |-> FALSE, modelInstalled |-> FALSE,
             error |-> <<"Ollama not running at ">> \o OLLAMA_BASE_URL
                       \o <<". Start it with: ollama serve">>]
       ELSE [returned |-> TRUE, available |-> FALSE, modelInstalled |-> FALSE,
             error |-> response.message]
  ELSE IF response.kind = "status"
  THEN [returned |-> TRUE, available |-> FALSE, modelInstalled |-> FALSE,
        error |-> <<"Ollama service returned ", response.status>>]
  ELSE LET installedModels ==
             IF response.models = NoModels THEN <<>>
             ELSE [i \in 1..Len(response.models) |-> response.models[i].name]
           modelInstalled ==
             \E i \in 1..Len(installedModels) :
               \/ installedModels[i] = OLLAMA_MODEL
               \/ StartsWith(installedModels[i], OLLAMA_MODEL)
       IN  [returned |-> TRUE, available |-> TRUE, modelInstalled |-> modelInstalled,
            error |-> IF modelInstalled THEN Undefined
                      ELSE <<"Model '">> \o OLLAMA_MODEL
                             \o <<"' not found. Run: ollama pull ">> \o OLLAMA_MODEL]

checkOllamaAvailability(response) ==
  IF response.kind = "throw"
  THEN IF response.code = "ECONNREFUSED"
       THEN [returned |-> TRUE, available |-> FALSE, modelInstalled |-> FALSE,
             error |-> <<"Ollama not running at ">> \o OLLAMA_BASE_URL
                       \o <<". Start it with: ollama serve">>]
       ELSE [returned |-> TRUE, available |-> FALSE, modelInstalled |-> FALSE,
             error |-> response.message]
  ELSE IF response.kind = "status"
  THEN [returned |-> TRUE, available |-> FALSE, modelInstalled |-> FALSE,
        error |-> <<"Ollama service returned ", response.status>>]
  ELSE LET installedModels ==
             IF response.models = NoModels THEN <<>>
             ELSE [i \in 1..Len(response.models) |-> response.models[i].name]
           modelInstalled ==
             \E i \in 1..Len(installedModels) :
               \/ installedModels[i] = OLLAMA_MODEL
               \/ StartsWith(installedModels[i], OLLAMA_MODEL \o <<":">>)
       IN  [returned |-> TRUE, available |-> TRUE, modelInstalled |-> modelInstalled,
            error |-> IF modelInstalled THEN Undefined
                      ELSE <<"Model '">> \o OLLAMA_MODEL
                             \o <<"' not found. Run: ollama pull ">> \o OLLAMA_MODEL]

Diagnose ==
  /\ \E response \in TagsOutcomes :
       diagnostic' = [given |-> response, result |-> checkOllamaAvailability(response)]
  /\ UNCHANGED <<LLM_PROVIDER, GEMINI_API_KEY, genAI, parked, readyState, sess,
                 heap, outbox, req, nframes, lastFrame, resets, spliced, keepalive,
                 db, res, now>>

InitDiagnostic == Startup({<<"ollama", Undefined>>})

ReceiveDiagnostic ==
  /\ InFlight = {}
  /\ \E data \in LongFrames : OnMessage(data, FALSE, MaxSessionFrames, MaxInflight)

NextDiagnostic ==
  \/ Connect
  \/ ReceiveDiagnostic
  \/ LoadPersonaLong
  \/ Generate
  \/ Diagnose

SpecDiagnostic == InitDiagnostic /\ [][NextDiagnostic]_vars

(***************************************************************************)
(* Input validation of the auth router (server/middleware/validation.ts).  *)
(* Emails, passwords and user ids are strings of characters.               *)
(***************************************************************************)
\* .replace(/[<>]/g, "")
RECURSIVE RemoveAngles(_)
RemoveAngles(s) ==
  IF s = <<>> THEN <<>>
  ELSE IF Head(s) \in {"<", ">"} THEN RemoveAngles(Tail(s))
  ELSE <<Head(s)>> \o RemoveAngles(Tail(s))

sanitizeString(input) ==
  LET cleaned == RemoveAngles(Trim(input))
  IN  IF Len(cleaned) > SanitizeLimit THEN SubSeq(cleaned, 1, SanitizeLimit) ELSE cleaned

\* EMAIL_REGEX = /^[^\s@]+@[^\s@]+\.[^\s@]+$/ : no white space, one "@" with
\* text before it, and after it a "." with text on both sides
isValidEmail(email) ==
  /\ \A i \in 1..Len(email) : email[i] \notin Whitespace
  /\ Cardinality({i \in 1..Len(email) : email[i] = "@"}) = 1
  /\ \E at \in 2..Len(email) :
       /\ email[at] = "@"
       /\ \E dot \in (at + 2)..(Len(email) - 1) : email[dot] = "."
  /\ Len(email) <= MaxEmailLength

isValidPassword(password) ==
  Len(password) >= MinPasswordLength /\ Len(password) <= MaxPasswordLength

isValidUserType(userType) == userType = <<"student">> \/ userType = <<"practitioner">>

\* crypto digests in hex: 32 characters for md5; the model keeps what was
\* digested instead of the characters
Md5HexLength == 32
IsDigest(s) == s # <<>> /\ Head(s) = "md5:"
Length(s) == IF IsDigest(s) THEN Md5HexLength ELSE Len(s)

(***************************************************************************)
(* SQLiteAuthService (server/services/ollama-llm.ts, second part).  The    *)
(* table has id as primary key and email UNIQUE; better-sqlite3 is         *)
(* synchronous, so each method runs without interleaving.  Every method    *)
(* is given the time t that Date.now() returns during the call.            *)
(***************************************************************************)
hashPassword(password) == <<"sha256:">> \o password

generateUserId(email, t) == <<"md5:">> \o email \o <<"+", ToString(t)>>

\* the message of the SqliteError of a PRIMARY KEY or UNIQUE violation
UniqueViolation == <<"UNIQUE constraint", " failed: users">>

AlreadyExists == <<"User ", "already exists", " with this email">>

\* INSERT or UPDATE of a row fails when another row has its id or its email
Violates(others, row) ==
  \E other \in others : other.id = row.id \/ other.email = row.email

\* what a method gives back: a user, null, true or false, or an Error thrown;
\* and the rows of the table after the call
Returned(kind, users, rows) ==
  [kind |-> kind, user |-> users, message |-> <<>>, rows |-> rows]
Thrown(message, rows) ==
  [kind |-> "throw", user |-> {}, message |-> message, rows |-> rows]

createUser(rows, email, password, userType, rememberMe, t) ==
  LET userId == generateUserId(email, t)
      passwordHash == hashPassword(password)
      normalizedEmail == Trim(ToLower(email))
      existing == \E row \in rows : row.email = normalizedEmail
      userData == [id |-> userId, email |-> normalizedEmail,
                   passwordHash |-> passwordHash, userType |-> userType,
                   createdAt |-> t, lastLogin |-> t, isActive |-> TRUE,
                   rememberMe |-> rememberMe]
      \* the try block: a user, or the Error it throws
      attempt ==
        IF existing THEN Thrown(AlreadyExists, rows)
        ELSE IF Violates(rows, userData) THEN Thrown(UniqueViolation, rows)
        ELSE Returned("user", {userData}, rows \cup {userData})
  IN  \* the catch block rethrows under one of two messages
      IF attempt.kind # "throw" THEN attempt
      ELSE IF Includes(attempt.message, "UNIQUE constraint")
      THEN Thrown(AlreadyExists, rows)
      ELSE Thrown(<<"Failed to create user account">>, rows)

authenticateUser(rows, email, password, t) ==
  LET passwordHash == hashPassword(password)
      normalizedEmail == Trim(ToLower(email))
      found == {row \in rows : row.email = normalizedEmail /\ row.isActive}
  IN  IF found = {} THEN Returned("null", {}, rows)
      ELSE LET row == CHOOSE r \in found : TRUE
           IN  IF row.passwordHash # passwordHash THEN Returned("null", {}, rows)
               ELSE LET userData == [row EXCEPT !.lastLogin = t]
                    IN  Returned("user", {userData}, (rows \ {row}) \cup {userData})

getUserById(rows, userId) ==
  LET found == {row \in rows : row.id = userId /\ row.isActive}
  IN  IF found = {} THEN Returned("null", {}, rows)
      ELSE Returned("user", found, rows)

\* the columns an update may set
Updatable == {"email", "userType", "lastLogin", "isActive", "rememberMe"}

\* updateUser with a slip: the row is looked up whether active or not
updateUser_AnyRow(rows, userId, updates) ==
  LET found == {row \in rows : row.id = userId}
  IN  IF found = {} THEN Returned("null", {}, rows)
      ELSE LET row == CHOOSE r \in found : TRUE
               value(column) ==
                 IF column = "email" THEN Trim(ToLower(updates.email))
                 ELSE updates[column]
               updatedRow ==
                 [column \in DOMAIN row |->
                    IF column \in Updatable \cap DOMAIN updates
                    THEN value(column) ELSE row[column]]
           IN  IF \/ Violates(rows \ {row}, updatedRow)
                  \/ ~isValidUserType(updatedRow.userType)
               THEN Thrown(<<"Failed to update user">>, rows)
               ELSE Returned("user", {updatedRow}, (rows \ {row}) \cup {updatedRow})

updateUser(rows, userId, updates) ==
  LET found == {row \in rows : row.id = userId /\ row.isActive}
  IN  IF found = {} THEN Returned("null", {}, rows)
      ELSE LET row == CHOOSE r \in found : TRUE
               value(column) ==
                 IF column = "email" THEN Trim(ToLower(updates.email))
                 ELSE updates[column]
               updatedRow ==
                 [column \in DOMAIN row |->
                    IF column \in Updatable \cap DOMAIN updates
                    THEN value(column) ELSE row[column]]
           IN  IF \/ Violates(rows \ {row}, updatedRow)
                  \/ ~isValidUserType(updatedRow.userType)
               THEN Thrown(<<"Failed to update user">>, rows)
               ELSE Returned("user", {updatedRow}, (rows \ {row}) \cup {updatedRow})

deactivateUser(rows, userId) ==
  LET result == updateUser(rows, userId, [isActive |-> FALSE])
  IN  IF result.kind = "throw" THEN Returned("false", {}, result.rows)
      ELSE IF result.kind = "null" THEN Returned("false", {}, result.rows)
      ELSE Returned("true", {}, result.rows)

getAllUsers(rows) == {row \in rows : row.isActive}

(***************************************************************************)
(* The auth router (server/routes/auth.ts) over the SQLite service: one    *)
(* action per request, the validation middleware included.  A request is   *)
(* handled at the time of the previous one or a millisecond later.         *)
(***************************************************************************)
RawEmails ==
  { <<"k","@","i",".","l">>,
    <<"K","@","i",".","l">>,
    <<" ","k","@","i",".","l">>,
    <<"k","<","@","i",".","l">>,
    <<"h","@","i",".","l">> }

Passwords == {<<"s","e","c","r","e","t">>, <<"h","u","n","t","e","r">>, <<"a","b","c">>}

UserTypes == {<<"student">>, <<"admin">>}

UnknownId == <<"md5:", "z", "+", "0">>
ShortId == <<"1","2","3">>
UserIds == {row.id : row \in db} \cup {UnknownId, ShortId}

\* JSON bodies of PUT /user/:userId
UpdateBodies ==
  { [email |-> <<"h","@","i",".","l">>],
    [isActive |-> TRUE],
    [isActive |-> FALSE],
    [passwordHash |-> hashPassword(<<"s","e","c","r","e","t">>), rememberMe |-> TRUE] }

\* Safe with a slip: the row is returned as it is
Safe_WholeRow(userData) == userData

\* const { passwordHash, ...safeUserData } = userData
Safe(userData) ==
  [field \in DOMAIN userData \ {"passwordHash"} |-> userData[field]]

Times == {now, now + 1}

\* res.status(...).json(...), with the request it answers
Respond(route, email, userId, valid, service, status, success, message, users) ==
  res' = [ n |-> res.n + 1, route |-> route, email |-> email, userId |-> userId,
           valid |-> valid, service |-> service, status |-> status,
           success |-> success, message |-> message, user |-> users ]

ConnectionUnchanged ==
  UNCHANGED <<LLM_PROVIDER, GEMINI_API_KEY, genAI, readyState, sess, heap, outbox,
              req, nframes, lastFrame, resets, spliced, keepalive, parked,
              diagnostic>>

PostRegister ==
  /\ res.n < MaxRequests
  /\ \E email \in RawEmails, password \in Passwords, userType \in UserTypes, t \in Times :
       /\ now' = t
       /\ IF Falsy(email) \/ Falsy(password) \/ Falsy(userType)
          THEN /\ Respond("register", email, <<>>, FALSE, "skipped", StatusBadRequest, FALSE,
                          <<"Email, password, and user type are required">>, {})
               /\ db' = db
          ELSE IF ~isValidEmail(email)
          THEN /\ Respond("register", email, <<>>, FALSE, "skipped", StatusBadRequest, FALSE,
                          <<"Invalid email format">>, {})
               /\ db' = db
          ELSE IF ~isValidPassword(password)
          THEN /\ Respond("register", email, <<>>, FALSE, "skipped", StatusBadRequest, FALSE,
                          <<"Password must be between 6 and 128 characters">>, {})
               /\ db' = db
          ELSE IF ~isValidUserType(userType)
          THEN /\ Respond("register", email, <<>>, FALSE, "skipped", StatusBadRequest, FALSE,
                          <<"Invalid user type. Must be student or practitioner">>, {})
               /\ db' = db
          ELSE LET userData == createUser(db, ToLower(sanitizeString(email)), password,
                                          userType, FALSE, t)
               IN  /\ db' = userData.rows
                   /\ IF userData.kind = "user"
                      THEN Respond("register", email, <<>>, TRUE, "user", StatusCreated, TRUE,
                                   <<"User created successfully">>,
                                   {Safe(u) : u \in userData.user})
                      ELSE IF ~Falsy(userData.message)
                              /\ Includes(userData.message, "already exists")
                      THEN Respond("register", email, <<>>, TRUE, "throw", StatusConflict, FALSE,
                                   <<"User already exists with this email">>, {})
                      ELSE Respond("register", email, <<>>, TRUE, "throw", StatusServerError,
                                   FALSE, <<"Internal server error during registration">>, {})
  /\ ConnectionUnchanged

PostLogin ==
  /\ res.n < MaxRequests
  /\ \E email \in RawEmails, password \in Passwords, t \in Times :
       /\ now' = t
       /\ IF Falsy(email) \/ Falsy(password)
          THEN /\ Respond("login", email, <<>>, FALSE, "skipped", StatusBadRequest, FALSE,
                          <<"Email and password are required">>, {})
               /\ db' = db
          ELSE IF ~isValidEmail(email)
          THEN /\ Respond("login", email, <<>>, FALSE, "skipped", StatusBadRequest, FALSE,
                          <<"Invalid email format">>, {})
               /\ db' = db
          ELSE LET userData == authenticateUser(db, ToLower(sanitizeString(email)),
                                                password, t)
               IN  /\ db' = userData.rows
                   /\ IF userData.kind = "null"
                      THEN Respond("login", email, <<>>, TRUE, "null", StatusUnauthorized, FALSE,
                                   <<"Invalid email or password">>, {})
                      ELSE Respond("login", email, <<>>, TRUE, "user", StatusOK, TRUE,
                                   <<"Login successful">>, {Safe(u) : u \in userData.user})
  /\ ConnectionUnchanged

\* validateUserId
InvalidUserId(userId) ==
  Falsy(userId) \/ Length(userId) < MinUserIdLength \/ Length(userId) > MaxUserIdLength

GetUser ==
  /\ res.n < MaxRequests
  /\ \E userId \in UserIds :
       IF InvalidUserId(userId)
       THEN Respond("get", <<>>, userId, FALSE, "skipped", StatusBadRequest, FALSE,
                    <<"Invalid user ID">>, {})
       ELSE LET userData == getUserById(db, sanitizeString(userId))
            IN  IF userData.kind = "null"
                THEN Respond("get", <<>>, userId, TRUE, "null", StatusNotFound, FALSE,
                             <<"User not found">>, {})
                ELSE Respond("get", <<>>, userId, TRUE, "user", StatusOK, TRUE, <<>>,
                             {Safe(u) : u \in userData.user})
  /\ UNCHANGED <<db, now>>
  /\ ConnectionUnchanged

PutUser ==
  /\ res.n < MaxRequests
  /\ \E userId \in UserIds, body \in UpdateBodies :
       IF InvalidUserId(userId)
       THEN /\ Respond("put", <<>>, userId, FALSE, "skipped", StatusBadRequest, FALSE,
                       <<"Invalid user ID">>, {})
            /\ db' = db
       ELSE LET updates == [field \in DOMAIN body \ {"passwordHash", "id", "createdAt"}
                              |-> body[field]]
                updatedUser == updateUser(db, sanitizeString(userId), updates)
            IN  /\ db' = updatedUser.rows
                /\ IF updatedUser.kind = "throw"
                   THEN Respond("put", <<>>, userId, TRUE, "throw", StatusServerError, FALSE,
                                <<"Internal server error during update">>, {})
                   ELSE IF updatedUser.kind = "null"
                   THEN Respond("put", <<>>, userId, TRUE, "null", StatusNotFound, FALSE,
                                <<"User not found">>, {})
                   ELSE Respond("put", <<>>, userId, TRUE, "user", StatusOK, TRUE,
                                <<"User updated successfully">>,
                                {Safe(u) : u \in updatedUser.user})
  /\ UNCHANGED now
  /\ ConnectionUnchanged

DeleteUser ==
  /\ res.n < MaxRequests
  /\ \E userId \in UserIds :
       IF InvalidUserId(userId)
       THEN /\ Respond("delete", <<>>, userId, FALSE, "skipped", StatusBadRequest, FALSE,
                       <<"Invalid user ID">>, {})
            /\ db' = db
       ELSE LET success == deactivateUser(db, sanitizeString(userId))
            IN  /\ db' = success.rows
                /\ IF success.kind = "false"
                   THEN Respond("delete", <<>>, userId, TRUE, "false", StatusNotFound, FALSE,
                                <<"User not found or already deactivated">>, {})
                   ELSE Respond("delete", <<>>, userId, TRUE, "true", StatusOK, TRUE,
                                <<"User account deactivated successfully">>, {})
  /\ UNCHANGED now
  /\ ConnectionUnchanged

InitAuth == Startup({<<"ollama", Undefined>>})

NextAuth ==
  \/ PostRegister
  \/ PostLogin
  \/ GetUser
  \/ PutUser
  \/ DeleteUser

SpecAuth == InitAuth /\ [][NextAuth]_vars

(***************************************************************************)
(* Properties                                                              *)
(***************************************************************************)
\* the session's conversation memory
Memory == heap[sess.history]

\* the text contains a phrase of the crisis lexicon, case-insensitively
MatchesLexicon(text) ==
  \E phrase \in CrisisLexicon : Contains(ToLower(text), phrase)

\* positions in the outbox of the frames of one type sent for one input
FramesFor(r, type) ==
  {i \in 1..Len(outbox) : outbox[i].type = type /\ outbox[i].xid = r}

Last(s) == s[Len(s)]

\* this step is the handler processing a text frame of the given type
Handled(type) ==
  /\ nframes' = nframes + 1
  /\ ~lastFrame'.isBinary
  /\ lastFrame'.data.json = "object"
  /\ lastFrame'.data.type = type

\* the exchanges whose generation failed
Failed == {r \in DOMAIN req : req[r].pc = "done" /\ Last(req[r].log) = "error"}

\* the arrays that hold a turn of an exchange
TurnsOf(r) ==
  {a \in ArrIds : \E i \in 1..Len(heap[a]) : heap[a][i].xid = r}

\* the messages therapyReply can reject with
ProviderFailureMessages ==
  {therapyReplyOllama(o).value : o \in {x \in OllamaOutcomes : x.kind # "ok"}}
    \cup {therapyReplyGemini(o).value : o \in {x \in GeminiOutcomes : x.kind # "ok"}}
    \cup {GeminiNotInitialized}

----------------------------------------------------------------------------
\* C1: the session's conversation memory never holds more than 20 turns,
\* whatever frames arrive.
C1_MemoryAtMostCap == Len(Memory) <= MemoryCap

----------------------------------------------------------------------------
\* C2: every input that matches the crisis lexicon is answered with exactly
\* one persona_say frame carrying the canned safety reply, and no backend is
\* invoked for it, whatever the persona, the memory or the backend state.
C2_CrisisNeverReachesProvider ==
  \A r \in DOMAIN req :
    MatchesLexicon(req[r].userText) =>
      /\ req[r].calls = 0
      /\ req[r].pc = "done"
      /\ \A i \in FramesFor(r, "persona_say") :
           outbox[i].text = crisisResponse /\ outbox[i].who = "thera"
      /\ Cardinality(FramesFor(r, "persona_say")) = 1
      /\ FramesFor(r, "error") = {}

C2_Witness ==
  \E r \in DOMAIN req :
    /\ MatchesLexicon(req[r].userText)
    /\ req[r].persona # DefaultPersona
    /\ Generating # {}
    /\ FramesFor(r, "persona_say") # {}

----------------------------------------------------------------------------
\* C3: for every non-empty input the crisis screen runs before the persona
\* is loaded and before a backend is called; a handler that has started the
\* persona load or a backend call holds an input that passed the screen.
C3_SafetyGateFirst ==
  \A r \in DOMAIN req :
    /\ \A i \in 1..Len(req[r].log) :
         req[r].log[i] \in {"loadPersona", "provider"} =>
           \E j \in 1..(i - 1) : req[r].log[j] = "detectCrisis"
    /\ (req[r].pc \in {"loadPersona", "generate"}
          \/ req[r].outcome # "pending" \/ req[r].calls > 0)
         => ~MatchesLexicon(req[r].userText)

C3_Witness ==
  \E r \in DOMAIN req :
    /\ req[r].persona # DefaultPersona
    /\ req[r].calls = 1
    /\ req[r].outcome = "found"
    /\ req[r].log = <<"final_stt", "detectCrisis", "loadPersona", "provider">>

----------------------------------------------------------------------------
\* C4: a crisis input appends its user turn and then the canned reply as the
\* last two entries of the memory; the prompt of a later passing input holds
\* that pair, unless a reset came between the two inputs or the trim has
\* dropped the pair.
C4_CrisisStepAppends ==
  (Handled("text_input") /\ MatchesLexicon(Trim(lastFrame'.data.text))) =>
    /\ sess'.history = sess.history
    /\ heap'[sess.history] =
         heap[sess.history]
           \o << Turn("user", Trim(lastFrame'.data.text), nframes'),
                 Turn("assistant", crisisResponse, nframes') >>

C4_PromptHoldsCrisisPair ==
  \A c \in DOMAIN req, r \in DOMAIN req :
    ( /\ c < r
      /\ MatchesLexicon(req[c].userText)
      /\ req[r].messages # <<>>
      /\ ~\E k \in resets : c < k /\ k < r
      /\ c \notin spliced )
    => \E i \in 1..(Len(req[r].messages) - 1) :
         /\ req[r].messages[i] = Turn("user", req[c].userText, c)
         /\ req[r].messages[i + 1] = Turn("assistant", crisisResponse, c)

C4_CrisisExchangeRecorded ==
  [][C4_CrisisStepAppends]_vars /\ []C4_PromptHoldsCrisisPair

C4_Witness ==
  \E c \in DOMAIN req, r \in DOMAIN req :
    /\ c < r
    /\ MatchesLexicon(req[c].userText)
    /\ \E i \in 1..(Len(req[r].messages) - 1) :
         /\ req[r].messages[i] = Turn("user", req[c].userText, c)
         /\ req[r].messages[i + 1] = Turn("assistant", crisisResponse, c)

----------------------------------------------------------------------------
\* C5: the turn pairs in memory are in the order in which their inputs were
\* received, for every interleaving of arrivals and completions.
C5_MemoryInArrivalOrder ==
  \A i \in 1..Len(Memory), j \in 1..Len(Memory) :
    i < j => Memory[i].xid <= Memory[j].xid

----------------------------------------------------------------------------
\* C6: processing a set_persona frame leaves the memory (content, order,
\* length), the keepalive timer and every handler untouched, starts no
\* backend call, and sends exactly one frame, of type info.
C6_SetPersonaStep ==
  Handled("set_persona") =>
    /\ heap' = heap
    /\ sess'.history = sess.history
    /\ sess'.ping = sess.ping
    /\ req' = req
    /\ Len(outbox') = Len(outbox) + 1
    /\ SubSeq(outbox', 1, Len(outbox)) = outbox
    /\ Last(outbox').type = "info"

C6_SetPersonaChangesOnlyPersona == [][C6_SetPersonaStep]_vars

C6_Witness ==
  /\ ~lastFrame.isBinary
  /\ lastFrame.data.type = "set_persona"
  /\ sess.persona = <<"marcus">>
  /\ Memory # <<>>
  /\ InFlight # {}

----------------------------------------------------------------------------
\* C7: processing a reset frame leaves the memory empty, sends exactly one
\* frame, info "Memory cleared", and changes neither the persona nor the
\* keepalive timer.
C7_ResetStep ==
  Handled("reset") =>
    /\ Len(heap'[sess'.history]) = 0
    /\ outbox' = Append(outbox, [type |-> "info", message |-> <<"Memory cleared">>])
    /\ sess'.persona = sess.persona
    /\ sess'.ping = sess.ping

C7_ResetClearsMemory == [][C7_ResetStep]_vars

C7_Witness ==
  /\ ~lastFrame.isBinary
  /\ lastFrame.data.type = "reset"
  /\ sess.persona = <<"marcus">>
  /\ Memory = <<>>
  /\ \E r \in DOMAIN req : MatchesLexicon(req[r].userText) /\ TurnsOf(r) = {}

----------------------------------------------------------------------------
\* C8: the prompt assembled for the first text input received after a reset
\* holds no turn of an exchange whose input was received before that reset.
C8_PromptAfterResetIsClean ==
  \A k \in resets, r \in DOMAIN req :
    ( /\ k < r
      /\ ~\E x \in DOMAIN req : k < x /\ x < r
      /\ req[r].messages # <<>> )
    => \A i \in 1..Len(req[r].messages) :
         req[r].messages[i].xid = 0 \/ req[r].messages[i].xid > k

----------------------------------------------------------------------------
\* C9: when the persona lookup returns nothing or throws, the request uses
\* exactly the embedded default system prompt and few-shot examples, the
\* backend is called as usual, and any error frame for the input carries a
\* backend failure message.
C9_PersonaFallback ==
  \A r \in DOMAIN req :
    req[r].outcome \in {"null", "throws"} =>
      /\ req[r].system = DefaultSystem
      /\ req[r].fewShot = DefaultFewShot
      /\ SubSeq(req[r].messages, 1, Len(DefaultFewShot)) = DefaultFewShot
      /\ (LLM_PROVIDER = "ollama" \/ genAI) => req[r].calls = 1
      /\ \A i \in FramesFor(r, "error") : outbox[i].message \in ProviderFailureMessages

C9_Witness ==
  \E r \in DOMAIN req :
    /\ req[r].outcome = "throws"
    /\ req[r].persona = <<"marcus">>
    /\ Last(req[r].log) = "generated"
    /\ FramesFor(r, "persona_say") # {}

----------------------------------------------------------------------------
\* C10 as claimed: a failed generation is answered with exactly one error
\* frame and leaves no turn of its exchange in memory.
C10_ExactlyOneErrorFrame ==
  \A r \in Failed :
    /\ Cardinality(FramesFor(r, "error")) = 1
    /\ TurnsOf(r) = {}

\* C10 as amended: when the generation for a passing input fails, the memory
\* is left as it was and no turn of the exchange is ever stored; one error
\* frame carrying the failure message is sent if the socket is still open at
\* that moment, and none if it is not; never more than one.
C10_FailureStep ==
  \A r \in DOMAIN req :
    (req[r].pc # "done" /\ req'[r].pc = "done" /\ Last(req'[r].log) = "error") =>
      /\ sess'.history = sess.history
      /\ heap'[sess.history] = heap[sess.history]
      /\ IF readyState = "OPEN"
         THEN \E m \in ProviderFailureMessages :
                outbox' = Append(outbox, [type |-> "error", message |-> m, xid |-> r])
         ELSE outbox' = outbox

C10_FailedLeavesNoTurn ==
  \A r \in Failed :
    /\ TurnsOf(r) = {}
    /\ Cardinality(FramesFor(r, "error")) <= 1
    /\ readyState = "OPEN" => Cardinality(FramesFor(r, "error")) = 1

C10_FailureReported == [][C10_FailureStep]_vars /\ []C10_FailedLeavesNoTurn

C10_Witness ==
  \E r \in Failed :
    /\ "provider" \in {req[r].log[i] : i \in 1..Len(req[r].log)}
    /\ Cardinality(FramesFor(r, "error")) = 1
    /\ Memory # <<>>

----------------------------------------------------------------------------
\* a step in which the dispatch itself fails: the payload is not JSON, or it
\* is JSON without properties to read
ProtocolFailureStep ==
  /\ nframes' = nframes + 1
  /\ ~lastFrame'.isBinary
  /\ lastFrame'.data.json # "object"

\* a step in which the persona lookup of a handler comes back empty-handed
PersonaFailureStep ==
  \E r \in DOMAIN req :
    req[r].outcome = "pending" /\ req'[r].outcome \in {"null", "throws"}

\* a step in which the generation of a handler fails
GenerationFailureStep ==
  \E r \in DOMAIN req :
    req[r].pc # "done" /\ req'[r].pc = "done" /\ Last(req'[r].log) = "error"

\* C11: a step in which a frame cannot be dispatched, a persona cannot be
\* loaded or a generation fails leaves the connection in the state it was in
\* (an open connection stays open) and keeps the session: the same memory,
\* persona and keepalive timer; inputs are accepted afterwards as before.
C11_FailureStep ==
  (ProtocolFailureStep \/ PersonaFailureStep \/ GenerationFailureStep) =>
    /\ readyState' = readyState
    /\ sess' = sess
    /\ heap'[sess.history] = heap[sess.history]
    /\ keepalive' = keepalive

C11_FailureKeepsSessionOpen == [][C11_FailureStep]_vars

\* a malformed frame, then an input whose persona lookup and generation both
\* failed, then an input that was answered, all on the same open connection
C11_Witness ==
  /\ readyState = "OPEN"
  /\ \E i \in 1..Len(outbox) :
       outbox[i].type = "error" /\ outbox[i].message = ParseErrorMessage
  /\ \E f \in Failed, g \in DOMAIN req :
       /\ f < g
       /\ req[f].outcome = "throws"
       /\ req[f].calls = 1
       /\ Last(req[g].log) = "generated"
       /\ FramesFor(g, "persona_say") # {}

----------------------------------------------------------------------------
\* positions in the outbox of the frame that ends the exchange of one input
TerminalFor(r) == FramesFor(r, "persona_say") \cup FramesFor(r, "error")

\* the text of a text_input frame after String(msg.text || "").trim()
TrimmedText(data) == IF Falsy(data.text) THEN <<>> ELSE Trim(data.text)

\* C12: on an open connection a text_input whose trimmed text is not empty
\* is answered by one final_stt frame carrying the trimmed text, sent when
\* the input arrives, and by one terminal frame sent after it: persona_say
\* with the canned reply if the text is flagged, persona_say with the
\* backend's reply if the generation succeeded, error if it failed.  Until
\* the handler has finished there is no terminal frame; there are never two.
C12_EchoStep ==
  (Handled("text_input") /\ TrimmedText(lastFrame'.data) # <<>>) =>
    /\ Len(outbox') > Len(outbox)
    /\ SubSeq(outbox', 1, Len(outbox)) = outbox
    /\ outbox'[Len(outbox) + 1] =
         [type |-> "final_stt", text |-> TrimmedText(lastFrame'.data), xid |-> nframes']

C12_FrameSequence ==
  \A r \in DOMAIN req :
    /\ Cardinality(FramesFor(r, "final_stt")) = 1
    /\ Cardinality(TerminalFor(r)) <= 1
    /\ \A i \in FramesFor(r, "final_stt"), j \in TerminalFor(r) : i < j
    /\ req[r].pc # "done" => TerminalFor(r) = {}
    /\ (req[r].pc = "done" /\ readyState = "OPEN") => Cardinality(TerminalFor(r)) = 1
    /\ \A j \in TerminalFor(r) :
         IF MatchesLexicon(req[r].userText)
         THEN outbox[j].type = "persona_say" /\ outbox[j].text = crisisResponse
         ELSE IF req[r].backend.kind = "ok"
         THEN outbox[j].type = "persona_say" /\ outbox[j].text = Trim(req[r].backend.content)
         ELSE outbox[j].type = "error"

C12_EchoThenOneTerminal == [][C12_EchoStep]_vars /\ []C12_FrameSequence

\* one input answered by the backend and one whose generation failed, each
\* with its echo of the trimmed text before its terminal frame
C12_Witness ==
  \E g \in DOMAIN req, f \in Failed :
    /\ req[g].backend.kind = "ok"
    /\ \E i \in FramesFor(g, "final_stt"), j \in FramesFor(g, "persona_say") :
         i < j /\ outbox[i].text = <<"H", "i">>
    /\ \E i \in FramesFor(f, "final_stt"), j \in FramesFor(f, "error") : i < j

----------------------------------------------------------------------------
\* this step is the handler processing a text frame that JSON.parse accepts
\* and that declares none of the three types the dispatch knows
UnknownTypeStep ==
  /\ nframes' = nframes + 1
  /\ ~lastFrame'.isBinary
  /\ lastFrame'.data.json # "invalid"
  /\ lastFrame'.data.type \notin {"text_input", "set_persona", "reset"}

\* C13: a text frame that parses as JSON and whose type is none of
\* text_input, set_persona and reset (a frame without a type included) sends
\* no frame, and leaves the memory, the persona and the handlers as they are.
C13_UnknownTypeStep ==
  UnknownTypeStep =>
    /\ outbox' = outbox
    /\ sess' = sess
    /\ heap' = heap
    /\ req' = req

C13_UnknownTypeIsSilent == [][C13_UnknownTypeStep]_vars

\* the same for the payloads that parse to something with properties
C13_UnknownObjectIsSilent ==
  [][(UnknownTypeStep /\ lastFrame'.data.json = "object") => C13_UnknownTypeStep]_vars

----------------------------------------------------------------------------
\* C14: the handler of a text frame that is not JSON sends exactly one
\* frame, an error carrying the message of the parse exception; it starts no
\* handler and no backend call, leaves memory, persona and timer as they
\* are, and leaves the connection open for the frames that follow.
C14_MalformedStep ==
  ( /\ nframes' = nframes + 1
    /\ ~lastFrame'.isBinary
    /\ lastFrame'.data.json = "invalid" ) =>
    /\ outbox' = Append(outbox, [type |-> "error", message |-> ParseErrorMessage,
                                 xid |-> 0])
    /\ req' = req
    /\ heap' = heap
    /\ sess' = sess
    /\ keepalive' = keepalive
    /\ readyState' = "OPEN"

C14_MalformedFrameReported == [][C14_MalformedStep]_vars

\* an answered input, then a malformed frame, then another answered input;
\* the memory holds both exchanges
C14_Witness ==
  \E i \in 1..Len(outbox), g \in DOMAIN req, h \in DOMAIN req :
    /\ outbox[i].type = "error" /\ outbox[i].message = ParseErrorMessage
    /\ \E j \in FramesFor(g, "persona_say") : j < i
    /\ \E j \in FramesFor(h, "persona_say") : i < j
    /\ Last(req[h].log) = "generated"
    /\ sess.history \in TurnsOf(g) \cap TurnsOf(h)

----------------------------------------------------------------------------
\* the handler whose backend call ends in this step with a refused connection
RefusedNow(r) ==
  /\ LLM_PROVIDER = "ollama"
  /\ req[r].pc = "generate"
  /\ req'[r].pc = "done"
  /\ req'[r].backend.kind = "throw"
  /\ req'[r].backend.code = "ECONNREFUSED"

\* the advice callOllama gives when nothing listens at the local endpoint
Remediation(m) ==
  /\ Includes(m, "Cannot connect to Ollama at ")
  /\ Includes(m, ". Make sure Ollama is running: ollama serve")

\* C15: when the local backend refuses the connection, the frame sent for
\* the input is an error whose message says that the local service cannot be
\* reached and how to start it; the message holds no line of the exception's
\* stack trace.  The frame goes out if the socket is open.
C15_RefusedStep ==
  \A r \in DOMAIN req :
    RefusedNow(r) =>
      IF readyState = "OPEN"
      THEN /\ Len(outbox') = Len(outbox) + 1
           /\ SubSeq(outbox', 1, Len(outbox)) = outbox
           /\ Last(outbox').type = "error"
           /\ Last(outbox').xid = r
           /\ Remediation(Last(outbox').message)
           /\ \A i \in 1..Len(req'[r].backend.stack) :
                i > 1 => ~Includes(Last(outbox').message, req'[r].backend.stack[i])
      ELSE outbox' = outbox

C15_RefusedConnectionAdvice == [][C15_RefusedStep]_vars

C15_Witness ==
  \E r \in Failed :
    /\ LLM_PROVIDER = "ollama"
    /\ req[r].backend.kind = "throw"
    /\ req[r].backend.code = "ECONNREFUSED"
    /\ \E i \in FramesFor(r, "error") : Remediation(outbox[i].message)

----------------------------------------------------------------------------
\* a credential the cloud client can be constructed with
CloudConfigured ==
  ~Falsy(GEMINI_API_KEY) /\ Len(GEMINI_API_KEY) >= MinKeyLength

\* the info frame of the connection names the adapter the value selects:
\* the local one for "ollama", the cloud one for every other value
AnnouncedAdapter ==
  readyState # "CONNECTING" =>
    /\ Len(outbox) >= 2
    /\ outbox[2].type = "info"
    /\ outbox[2].message =
         (IF LLM_PROVIDER = "ollama" THEN <<"LLM: ", "Ollama (Local)">>
          ELSE <<"LLM: ", "Gemini Pro (Google AI)">>)

\* a generation is routed to the announced adapter: under "ollama" the local
\* adapter is called; under any other value the cloud adapter is, exactly as
\* under "gemini" with the same credential
RoutedToAnnounced ==
  \A r \in DOMAIN req :
    req[r].outcome # "pending" =>
      IF LLM_PROVIDER = "ollama" THEN req[r].calls = 1
      ELSE req[r].calls = (IF CloudConfigured THEN 1 ELSE 0)

\* C16: the provider value never changes after startup; every generation is
\* routed to the adapter the info frame of the connection names; a value
\* other than "gemini" and "ollama" is treated as the cloud provider.
C16_ProviderSelectionFixed ==
  /\ [][LLM_PROVIDER' = LLM_PROVIDER]_vars
  /\ [](AnnouncedAdapter /\ RoutedToAnnounced)

----------------------------------------------------------------------------
\* C17: the connection handler creates the session with persona "sarah" and
\* an empty memory, sends ready and then info "LLM: <provider name>" as the
\* first two frames, before any inbound frame is handled, and starts one
\* keepalive timer; no second timer is ever started.
C17_ConnectStep ==
  (readyState = "CONNECTING" /\ readyState' # "CONNECTING") =>
    /\ readyState' = "OPEN"
    /\ sess'.persona = <<"sarah">>
    /\ heap'[sess'.history] = <<>>
    /\ sess'.ping = "active"
    /\ nframes' = 0
    /\ req' = <<>>
    /\ Len(outbox') = 2

C17_Connected ==
  IF readyState = "CONNECTING"
  THEN outbox = <<>> /\ nframes = 0 /\ keepalive.started = 0
  ELSE /\ Len(outbox) >= 2
       /\ outbox[1] = [type |-> "ready"]
       /\ outbox[2].type = "info"
       /\ outbox[2].message[1] = "LLM: "
       /\ SubSeq(outbox[2].message, 2, Len(outbox[2].message)) =
            (CASE LLM_PROVIDER = "ollama" -> <<"Ollama (Local)">>
               [] OTHER -> <<"Gemini Pro (Google AI)">>)
       /\ keepalive.started = 1

C17_ConnectGreeting == [][C17_ConnectStep]_vars /\ []C17_Connected

\* the connection just after the handler ran, and later with frames handled
C17_Witness ==
  /\ readyState = "OPEN"
  /\ nframes > 0
  /\ Len(outbox) > 2
  /\ outbox[1].type = "ready" /\ outbox[2].type = "info"
  /\ keepalive.started = 1
  /\ keepalive.fired > 0

----------------------------------------------------------------------------
\* C18: for one input a backend is called at most once.  When the call
\* fails the handler ends in that step, with the error frame sent for that
\* input; a handler that has ended never runs again, so nothing is retried.
C18_CallStep ==
  \A r \in DOMAIN req :
    /\ req[r].pc = "done" => req'[r] = req[r]
    /\ (req[r].pc = "generate" /\ req'[r] # req[r]) =>
         /\ req'[r].pc = "done"
         /\ req'[r].calls = req[r].calls
         /\ req'[r].backend.kind # "ok" =>
              /\ Last(req'[r].log) = "error"
              /\ IF readyState = "OPEN"
                 THEN /\ Len(outbox') = Len(outbox) + 1
                      /\ Last(outbox').type = "error"
                      /\ Last(outbox').xid = r
                 ELSE outbox' = outbox

C18_CalledAtMostOnce ==
  \A r \in DOMAIN req :
    /\ req[r].calls <= 1
    /\ Cardinality({i \in 1..Len(req[r].log) : req[r].log[i] = "provider"}) = req[r].calls
    /\ r \in Failed => FramesFor(r, "persona_say") = {}

C18_NoRetry == [][C18_CallStep]_vars /\ []C18_CalledAtMostOnce

\* a failed call, reported, and the connection has moved on to later frames
C18_Witness ==
  \E r \in Failed :
    /\ req[r].calls = 1
    /\ req[r].backend.kind = "throw"
    /\ FramesFor(r, "error") # {}
    /\ nframes > r
    /\ InFlight = {}

----------------------------------------------------------------------------
\* C19: while the connection is open exactly one keepalive timer is set;
\* the close handler cancels it, once; from then on the callback never runs
\* again, no ping is sent and nothing is cancelled a second time.
C19_OneTimer ==
  /\ keepalive.started - keepalive.cancelled = (IF readyState = "OPEN" THEN 1 ELSE 0)
  /\ readyState = "OPEN" => sess.ping = "active"
  /\ readyState = "CLOSED" =>
       /\ sess.ping = "cleared"
       /\ keepalive.cancelled = 1
  /\ keepalive.pings = keepalive.fired

C19_AfterCloseStep == readyState = "CLOSED" => keepalive' = keepalive

C19_TimerCancelledOnClose == [][C19_AfterCloseStep]_vars /\ []C19_OneTimer

\* a closed connection whose timer had fired, with callbacks to spare, and
\* on which a handler was still finishing after the close
C19_Witness ==
  /\ readyState = "CLOSED"
  /\ keepalive.fired > 0
  /\ keepalive.fired < MaxPings
  /\ keepalive.cancelled = 1
  /\ \E r \in DOMAIN req :
       req[r].pc = "done" /\ TerminalFor(r) = {}

----------------------------------------------------------------------------
\* the text of a frame is absent, empty or made of whitespace only
BlankInput(data) ==
  \/ data.text = Undefined
  \/ \A i \in 1..Len(data.text) : data.text[i] \in {" ", "\t", "\n"}

\* C20: the handler of a text_input frame whose text is missing, empty or
\* only whitespace sends nothing, starts no handler (so neither the crisis
\* screen nor a backend runs for it), and leaves memory and persona alone.
C20_BlankStep ==
  (Handled("text_input") /\ BlankInput(lastFrame'.data)) =>
    /\ outbox' = outbox
    /\ req' = req
    /\ heap' = heap
    /\ sess' = sess

C20_BlankInputIgnored == [][C20_BlankStep]_vars

\* a whitespace-only input was the last frame, on a session with a memory
\* and a persona of its own, and nothing was recorded for it
C20_Witness ==
  /\ ~lastFrame.isBinary
  /\ lastFrame.data.type = "text_input"
  /\ lastFrame.data.text = <<" ", " ">>
  /\ nframes \notin DOMAIN req
  /\ Memory # <<>>
  /\ sess.persona = <<"marcus">>

----------------------------------------------------------------------------
\* C21: the handler of a binary frame returns at once, whatever the payload
\* would decode to: it sends nothing, starts no handler and no backend call,
\* and leaves memory, persona and timer as they are.
C21_BinaryStep ==
  (nframes' = nframes + 1 /\ lastFrame'.isBinary) =>
    /\ outbox' = outbox
    /\ req' = req
    /\ heap' = heap
    /\ sess' = sess
    /\ readyState' = readyState

C21_BinaryFrameIgnored == [][C21_BinaryStep]_vars

\* a binary frame whose payload reads as a text_input arrived on a session
\* that has a memory, and nothing was started for it
C21_Witness ==
  /\ lastFrame.isBinary
  /\ lastFrame.data.json = "object"
  /\ lastFrame.data.type = "text_input"
  /\ nframes > 0
  /\ nframes \notin DOMAIN req
  /\ Memory # <<>>

----------------------------------------------------------------------------
\* the turns of a memory come in pairs: a user turn, then the assistant turn
\* of the same exchange
Paired(memory) ==
  /\ Len(memory) % 2 = 0
  /\ \A i \in 1..Len(memory) :
       IF i % 2 = 1
       THEN memory[i].role = "user"
       ELSE /\ memory[i].role = "assistant"
            /\ memory[i].xid = memory[i - 1].xid

----------------------------------------------------------------------------
\* the last n entries of a sequence, all of it when it has no more than n
LastN(s, n) == IF Len(s) > n THEN SubSeq(s, Len(s) - n + 1, Len(s)) ELSE s

\* C23: the step that completes a generated exchange leaves as memory the
\* last 20 entries of the memory it found followed by the user turn and the
\* assistant turn of the exchange: entries go from the front only and the
\* new pair is the last two entries.
C23_AppendStep ==
  \A r \in DOMAIN req :
    ( /\ req[r].pc = "generate"
      /\ req'[r].pc = "done"
      /\ Last(req'[r].log) = "generated" ) =>
      /\ sess'.history = sess.history
      /\ heap'[sess.history] =
           LastN(heap[sess.history]
                   \o << Turn("user", req[r].userText, r),
                         Turn("assistant", Trim(req'[r].backend.content), r) >>,
                 MemoryCap)

C23_AppendThenTrim == [][C23_AppendStep]_vars

\* a generated exchange whose append made the trim drop entries
C23_Witness ==
  /\ Len(Memory) = MemoryCap
  /\ spliced # {}
  /\ nframes \in DOMAIN req
  /\ Last(req[nframes].log) = "generated"
  /\ Memory[MemoryCap].xid = nframes
  /\ Memory[1].xid > 1

----------------------------------------------------------------------------
\* C24: the turn list assembled for a passing input is the few-shot examples
\* of the request, then the session memory, then the new user turn, once and
\* last; the assembly leaves the session memory as it is.  The session
\* memory is taken both ways the claim can be read: as it is when the list
\* is assembled, or as it was when the input arrived.
C24_AssemblyStep ==
  \A r \in DOMAIN req :
    (req[r].pc = "loadPersona" /\ req'[r].pc # "loadPersona") =>
      /\ \/ req'[r].messages =
              req'[r].fewShot \o heap[sess.history]
                \o <<Turn("user", req[r].userText, r)>>
         \/ req'[r].messages =
              req'[r].fewShot \o req[r].received
                \o <<Turn("user", req[r].userText, r)>>
      /\ sess'.history = sess.history
      /\ heap'[sess.history] = heap[sess.history]

C24_PromptIsMemoryPlusInput == [][C24_AssemblyStep]_vars

\* the same, for the inputs that found no other handler suspended and that
\* no frame overtook before their list was assembled
C24_SequentialAssemblyStep ==
  \A r \in DOMAIN req :
    ( /\ req[r].pc = "loadPersona"
      /\ req'[r].pc # "loadPersona"
      /\ nframes = r
      /\ InFlight = {r} ) =>
      /\ req'[r].messages =
           req'[r].fewShot \o heap[sess.history] \o <<Turn("user", req[r].userText, r)>>
      /\ heap'[sess.history] = heap[sess.history]

C24_SequentialPrompt == [][C24_SequentialAssemblyStep]_vars

----------------------------------------------------------------------------
\* C25: a passing input is bound, when it arrives, to the persona the
\* session has at that moment; a set_persona frame makes its persona (or
\* "sarah" when it names none) the session's persona for the inputs that
\* follow; the binding of a handler never changes afterwards, and when the
\* lookup succeeds the request uses the context of the bound persona,
\* whatever the session's persona has become in the meantime.
C25_PersonaStep ==
  /\ (Handled("text_input") /\ nframes' \in DOMAIN req') =>
       req'[nframes'].persona = sess.persona /\ sess'.persona = sess.persona
  /\ Handled("set_persona") =>
       sess'.persona = (IF lastFrame'.data.persona \in {Undefined, <<>>}
                        THEN <<"sarah">> ELSE lastFrame'.data.persona)
  /\ ~Handled("set_persona") => sess'.persona = sess.persona \/ readyState = "CONNECTING"
  /\ \A r \in DOMAIN req : req'[r].persona = req[r].persona

C25_BoundContext ==
  \A r \in DOMAIN req :
    req[r].outcome = "found" =>
      /\ req[r].system = <<"system prompt of ">> \o req[r].persona
      /\ req[r].fewShot[1].content = <<"example question for ">> \o req[r].persona
      /\ req[r].fewShot[2].content = <<"example answer of ">> \o req[r].persona

C25_PersonaOfArrival == [][C25_PersonaStep]_vars /\ []C25_BoundContext

\* an input received under "sarah" whose lookup returned after a set_persona
\* made "marcus" the session's persona
C25_Witness ==
  \E r \in DOMAIN req :
    /\ req[r].persona = <<"sarah">>
    /\ req[r].outcome = "found"
    /\ req[r].system = <<"system prompt of ", "sarah">>
    /\ sess.persona = <<"marcus">>
    /\ r < nframes
    /\ req[r].pc = "generate"


\* the arrays the handlers of the running connection can reach
ActiveRefs == {sess.history} \cup {req[r].history : r \in Loading}

\* an event of the running connection: the other session keeps its memory,
\* its persona and its frames; the event loop turning to the other connection
\* changes no memory and hands each connection its own locals back
C26_IsolationStep ==
  IF parked' = parked
  THEN parked.readyState # "CONNECTING" =>
         \A a \in ParkedRefs : heap'[a] = heap[a]
  ELSE /\ heap' = heap
       /\ parked'.sess = sess /\ parked'.outbox = outbox
       /\ sess' = parked.sess /\ outbox' = parked.outbox

C26_DisjointArrays ==
  (readyState # "CONNECTING" /\ parked.readyState # "CONNECTING") =>
    ActiveRefs \cap ParkedRefs = {}

\* C26: with two concurrent connections, each has its own memory and persona;
\* an input, a persona change or a reset on one connection never reads, writes
\* or clears the memory or the persona of the other.
C26_SessionsIsolated == [][C26_IsolationStep]_vars /\ []C26_DisjointArrays

\* both connections are open, one answered under a changed persona, the other
\* holds a different memory under the default persona with a lookup pending
C26_Witness ==
  /\ readyState = "OPEN" /\ parked.readyState = "OPEN"
  /\ Memory # <<>> /\ heap[parked.sess.history] # <<>>
  /\ Memory # heap[parked.sess.history]
  /\ sess.persona # parked.sess.persona
  /\ \E r \in DOMAIN req : req[r].pc = "done" /\ req[r].backend.kind = "ok"
  /\ \E r \in DOMAIN parked.req : parked.req[r].pc = "loadPersona"


----------------------------------------------------------------------------
\* a handler resumes from the persona lookup in this step
Resumed(r) == r \in DOMAIN req /\ req[r].pc = "loadPersona" /\ req'[r].pc # "loadPersona"

\* with "ollama" selected the resumed call goes to the local backend whatever
\* the key is, and a backend answer becomes the reply and the stored pair
C27_LocalStep ==
  LLM_PROVIDER = "ollama" =>
    \A r \in DOMAIN req :
      /\ Resumed(r) =>
           /\ req'[r].pc = "generate" /\ req'[r].calls = 1
           /\ outbox' = outbox
      /\ (req[r].pc = "generate" /\ req'[r].pc = "done"
            /\ req'[r].backend.kind = "ok") =>
           /\ Last(req'[r].log) = "generated"
           /\ outbox' = send(outbox, [type |-> "persona_say", who |-> "thera",
                                      text |-> callOllama(req'[r].backend).value,
                                      xid |-> r])
           /\ Len(heap'[sess.history]) >= 2
           /\ Last(heap'[sess.history]).xid = r

C27_NoCloudClient ==
  LLM_PROVIDER = "ollama" =>
    /\ ~genAI
    /\ readyState = "CONNECTING" => ENABLED Connect
    /\ \A i \in 1..Len(outbox) :
         outbox[i].type = "error" => outbox[i].message # GeminiNotInitialized

\* C27: with the local provider selected the cloud client is never constructed
\* and the cloud key is never required: whether the key is unset, too short or
\* valid, startup completes, connections are accepted and every generation
\* goes to the local backend and succeeds when the backend answers.
C27_LocalNeedsNoCredential == [][C27_LocalStep]_vars /\ []C27_NoCloudClient

\* the local provider with a key too short to be valid, and a generated reply
C27_Witness ==
  /\ LLM_PROVIDER = "ollama" /\ GEMINI_API_KEY = ShortKey
  /\ \E r \in DOMAIN req :
       /\ req[r].pc = "done" /\ req[r].backend.kind = "ok"
       /\ FramesFor(r, "persona_say") # {}
       /\ TurnsOf(r) # {}


----------------------------------------------------------------------------
\* the cloud route is selected and there is no credential a client can be
\* constructed with
CloudUnconfigured == LLM_PROVIDER # "ollama" /\ ~CloudConfigured

C28_DeferredStep ==
  CloudUnconfigured =>
    /\ \A r \in DOMAIN req :
         Resumed(r) =>
           /\ req'[r].pc = "done" /\ req'[r].calls = 0
           /\ readyState' = readyState
           /\ sess' = sess
           /\ heap'[sess.history] = heap[sess.history]
           /\ outbox' = IF readyState = "OPEN"
                        THEN Append(outbox, [type |-> "error",
                                             message |-> GeminiNotInitialized,
                                             xid |-> r])
                        ELSE outbox
    /\ (Handled("text_input") /\ MatchesLexicon(Trim(lastFrame'.data.text))) =>
         /\ readyState' = readyState
         /\ Len(outbox') = Len(outbox) + 2
         /\ Last(outbox') = [type |-> "persona_say", who |-> "thera",
                             text |-> crisisResponse, xid |-> nframes']
         /\ heap'[sess.history] =
              heap[sess.history]
                \o << Turn("user", Trim(lastFrame'.data.text), nframes'),
                      Turn("assistant", crisisResponse, nframes') >>

C28_NothingGenerated ==
  CloudUnconfigured =>
    /\ ~genAI
    /\ readyState = "CONNECTING" => ENABLED Connect
    /\ \A r \in DOMAIN req : req[r].calls = 0 /\ req[r].pc # "generate"
    /\ \A r \in DOMAIN req : ~MatchesLexicon(req[r].userText) => TurnsOf(r) = {}
    /\ \A r \in DOMAIN req :
         Cardinality(FramesFor(r, "error")) <= 1
           /\ (req[r].pc = "done" /\ ~MatchesLexicon(req[r].userText)
                 /\ readyState = "OPEN")
               => Cardinality(FramesFor(r, "error")) = 1

----------------------------------------------------------------------------
AuthMarkers == {"API_KEY_INVALID", "401"}
QuotaMarkers == {"quota", "429"}
NetworkMarkers == {"network", "ECONNREFUSED"}

\* the reason a remote error text stands for, by the first marker group it holds
ReasonOf(text) ==
  LET holds(markers) == \E i \in 1..Len(text) : text[i] \in markers
  IN  IF holds(AuthMarkers) THEN "auth"
      ELSE IF holds(QuotaMarkers) THEN "quota"
      ELSE IF holds(NetworkMarkers) THEN "network"
      ELSE "unknown"

\* the reasons a surfaced message expresses
ReasonsIn(surfaced) ==
  {reason \in {"auth", "quota", "network", "unknown"} :
     \/ reason = "auth" /\ surfaced =
          <<"Invalid Gemini API key. Please check your GEMINI_API_KEY environment variable.">>
     \/ reason = "quota" /\ surfaced =
          <<"Gemini API quota exceeded. Please check your API usage limits.">>
     \/ reason = "network" /\ surfaced =
          <<"Network error connecting to Gemini API. Please check your internet connection.">>
     \/ reason = "unknown" /\ surfaced # <<>> /\ Head(surfaced) = "Gemini API error: "}

\* the text of the exception, "Unknown error" standing for a missing one
RemoteText(o) == IF Falsy(o.message) THEN <<"Unknown error">> ELSE o.message

\* C29: a failure of the cloud backend is surfaced with exactly one reason:
\* auth if the remote text holds an invalid-credential marker, otherwise quota
\* if it holds a quota or rate-limit marker, otherwise network if it holds a
\* connectivity marker, otherwise unknown, and then the surfaced message
\* contains the remote text.
C29_ErrorClassified ==
  \A r \in DOMAIN req :
    (LLM_PROVIDER = "gemini" /\ req[r].backend.kind = "throw") =>
      /\ Cardinality(FramesFor(r, "error")) <= 1
      /\ \A i \in FramesFor(r, "error") :
           /\ ReasonsIn(outbox[i].message) = {ReasonOf(RemoteText(req[r].backend))}
           /\ ReasonOf(RemoteText(req[r].backend)) = "unknown" =>
                Contains(outbox[i].message, RemoteText(req[r].backend))

\* a remote text with a quota marker followed by an invalid-credential marker,
\* surfaced as the invalid-key message
C29_Witness ==
  \E r \in DOMAIN req :
    /\ req[r].backend.kind = "throw"
    /\ req[r].backend.message = <<"429", "API_KEY_INVALID">>
    /\ \E i \in FramesFor(r, "error") : ReasonsIn(outbox[i].message) = {"auth"}


----------------------------------------------------------------------------
\* the name is the configured one, or the configured one, a colon and a tag
NamesConfiguredModel(name) ==
  \/ name = OLLAMA_MODEL
  \/ /\ Len(name) > Len(OLLAMA_MODEL)
     /\ \A i \in 1..Len(OLLAMA_MODEL) : name[i] = OLLAMA_MODEL[i]
     /\ name[Len(OLLAMA_MODEL) + 1] = ":"

\* the names the service listed in the response the diagnostic was given
ListedNames ==
  IF diagnostic.given.kind # "ok" \/ diagnostic.given.models = NoModels THEN {}
  ELSE {diagnostic.given.models[i].name : i \in 1..Len(diagnostic.given.models)}

C30_Report ==
  diagnostic # NoDiagnostic =>
    /\ diagnostic.result.returned
    /\ diagnostic.result.available = (diagnostic.given.kind = "ok")
    /\ diagnostic.result.modelInstalled = (\E name \in ListedNames : NamesConfiguredModel(name))
    /\ ~diagnostic.result.available =>
         /\ ~diagnostic.result.modelInstalled
         /\ ~Falsy(diagnostic.result.error)

\* a handler step never runs the diagnostic, and the diagnostic touches
\* nothing of the connection
C30_SeparateStep ==
  /\ (req' # req \/ outbox' # outbox \/ heap' # heap \/ nframes' # nframes)
       => diagnostic' = diagnostic
  /\ diagnostic' # diagnostic =>
       UNCHANGED <<readyState, sess, heap, outbox, req, nframes, lastFrame>>

\* C30: the diagnostic always returns a report and never throws; no step of a
\* generation runs it; modelInstalled is true exactly when a listed model name
\* is the configured name or begins with that name and a colon; a report with
\* available = false has modelInstalled = false and an error text.
C30_DiagnosticReport == [][C30_SeparateStep]_vars /\ []C30_Report

\* after a generated reply, the service lists a model of another family whose
\* name begins like the configured one and a tagged build of the configured one
C30_Witness ==
  /\ \E r \in DOMAIN req : req[r].pc = "done" /\ req[r].backend.kind = "ok"
  /\ diagnostic # NoDiagnostic
  /\ diagnostic.given.kind = "ok"
  /\ diagnostic.given.models = <<[name |-> <<"l","l","a","m","a","3",".","1",":","8","b">>],
                                 [name |-> <<"l","l","a","m","a","3",":","8","b">>]>>
  /\ diagnostic.result.modelInstalled


----------------------------------------------------------------------------
\* on a closed connection a step sends nothing, and the connection stays closed
C31_ClosedStep ==
  readyState = "CLOSED" => (outbox' = outbox /\ readyState' = "CLOSED")

\* and a call that was pending at the close still runs to its end
C31_CompletionStep ==
  \A r \in DOMAIN req :
    (readyState = "CLOSED" /\ req[r].pc = "generate" /\ req'[r].pc = "done") =>
      /\ req'[r].backend.kind \in {"ok", "throw", "status"}
      /\ req'[r].backend.kind = "ok" =>
           (Len(heap'[sess.history]) >= 2 /\ Last(heap'[sess.history]).xid = r)

\* C31: after the connection has closed no frame is sent on it; a generation
\* that ends after the close, with a reply or with a failure, sends nothing,
\* although the call is not cancelled by the close and runs to its end.
C31_NothingSentAfterClose ==
  [][C31_ClosedStep /\ C31_CompletionStep]_vars

\* closed connection, one call answered and one failed, neither with a frame
C31_Witness ==
  /\ readyState = "CLOSED"
  /\ \E r \in DOMAIN req :
       /\ req[r].pc = "done" /\ req[r].calls = 1
       /\ req[r].backend.kind = "ok"
       /\ TerminalFor(r) = {}
       /\ TurnsOf(r) # {}

----------------------------------------------------------------------------
\* a set_persona frame without a usable persona puts the default back
C32_FalsyStep ==
  (Handled("set_persona") /\ Falsy(lastFrame'.data.persona)) =>
    sess'.persona = DefaultPersona

C32_PersonaSet ==
  readyState # "CONNECTING" => (~Falsy(sess.persona) /\ Len(sess.persona) > 0)

\* C32: the persona of a session is never empty: it starts as "sarah", and a
\* set_persona frame whose persona is missing or empty sets it to "sarah".
C32_PersonaNeverEmpty == [][C32_FalsyStep]_vars /\ []C32_PersonaSet

\* the session left the default persona and an empty set_persona brought it back
C32_Witness ==
  /\ sess.persona = DefaultPersona
  /\ ~lastFrame.isBinary
  /\ lastFrame.data.type = "set_persona"
  /\ lastFrame.data.persona = <<>>
  /\ \E i \in 1..Len(outbox) :
       outbox[i].type = "info" /\ outbox[i].message = <<"Persona set to: ", "marcus">>


----------------------------------------------------------------------------
\* this step answers a request of the given route
Answered(route) == res'.n = res.n + 1 /\ res'.route = route

\* the email a request carries, as the service compares it
Normalized(email) == Trim(ToLower(email))

\* C33: a registration that passed the input validation and whose email,
\* lower-cased and trimmed, is the email of a row of the user store is answered
\* with status 409 and "User already exists with this email", and the store
\* keeps the rows it had.
C33_DuplicateStep ==
  ( /\ Answered("register")
    /\ res'.valid
    /\ \E row \in db : row.email = Normalized(res'.email) )
  => /\ res'.status = StatusConflict
     /\ res'.message = <<"User already exists with this email">>
     /\ db' = db

C33_DuplicateRegistrationConflict == [][C33_DuplicateStep]_vars

----------------------------------------------------------------------------
Deactivated == {row \in db : ~row.isActive}

\* every method of the service treats a deactivated row as absent, and the
\* email of the row stays taken
C34_Hidden ==
  \A row \in Deactivated :
    /\ row \notin getAllUsers(db)
    /\ getUserById(db, row.id).kind = "null"
    /\ \A password \in Passwords :
         /\ authenticateUser(db, row.email, password, now).kind = "null"
         /\ \A userType \in UserTypes, t \in Times :
              createUser(db, row.email, password, userType, FALSE, t).kind = "throw"
    /\ \A updates \in UpdateBodies \cup {[isActive |-> TRUE, email |-> row.email]} :
         /\ updateUser(db, row.id, updates).kind = "null"
         /\ updateUser(db, row.id, updates).rows = db
    /\ deactivateUser(db, row.id).kind = "false"

\* no request changes a deactivated row, and a request for it is refused
C34_StaysStep ==
  \A row \in Deactivated :
    /\ row \in db'
    /\ ( res'.n = res.n + 1
         /\ \/ res'.userId = row.id
            \/ res'.valid /\ ToLower(sanitizeString(res'.email)) = row.email )
       => (~res'.success /\ res'.user = {} /\ db' = db)

\* C34: once a user is deactivated no sequence of operations brings the
\* account back: authenticateUser, getUserById and updateUser return null for
\* it, deactivateUser returns false, getAllUsers omits it, and createUser with
\* its email is rejected.
C34_DeactivatedForGood == [][C34_StaysStep]_vars /\ []C34_Hidden

\* a user registered, was deactivated, and the registration of the same email
\* was then refused
C34_Witness ==
  \E row \in Deactivated :
    /\ res.route = "register" /\ res.valid
    /\ ToLower(sanitizeString(res.email)) = row.email
    /\ ~res.success

----------------------------------------------------------------------------
\* C35: no response of the register, login, get-user and update-user
\* endpoints holds a password hash: the user object of a response has no
\* passwordHash field and none of its texts is the hash of a stored row.
C35_NoHashInResponse ==
  /\ \A u \in res.user :
       /\ "passwordHash" \notin DOMAIN u
       /\ \A row \in db : \A field \in {"id", "email", "userType"} :
            u[field] # row.passwordHash
  /\ \A row \in db : res.message # row.passwordHash
  /\ res.user # {} => res.route \in {"register", "login", "get", "put"}

\* an update whose body carried a passwordHash was answered with the user
C35_Witness ==
  /\ res.route = "put" /\ res.success
  /\ \E u \in res.user :
       /\ u.rememberMe
       /\ \E row \in db : row.id = u.id /\ row.passwordHash = hashPassword(<<"h","u","n","t","e","r">>)

====
